---- MODULE Spec2Model ----
(***************************************************************************)
(* Docsie -> Maven connector: the retry helper (utils/retry.ts), the       *)
(* destination uploader (maven/uploader.ts), the two paginated fetches of  *)
(* the source client (docsie/client.ts, docsie/content.ts), the sync       *)
(* orchestrator (sync/sync.ts) and the CLI runner (cli/run.ts).            *)
(***************************************************************************)
EXTENDS Integers, Sequences, FiniteSets, TLC

VARIABLES
    \* ---- withRetry (utils/retry.ts) ----
    rcfg,          \* the RetryConfig handed to withRetry: a function on the keys present
    rpc,           \* position in withRetry: "idle", "loop", "sleep", "returned", "threw"
    attempt,       \* loop variable `attempt`
    currentDelay,  \* local `currentDelay`
    lastError,     \* local `lastError`
    rout,          \* value withRetry returned or threw
    \* ---- MavenUploader (maven/uploader.ts) ----
    ucfg,          \* UploaderConfig: a function on the keys present (chunkSize)
    uretry,        \* UploaderConfig.retryConfig: a function on the keys present
    documents,     \* argument of upload(): sequence of documents
    upc,           \* position in upload
    chunks,        \* local `chunks` being built by chunkArray, then iterated
    ci,            \* chunkArray's `i`, then the chunk loop's `i`
    di,            \* index of the current document inside the current chunk
    result,        \* local `result` : UploadResult
    uout,          \* what upload() returned / raised
    \* ---- DocsieClient paginated fetch (docsie/client.ts, docsie/content.ts) ----
    served,        \* the collection the server holds behind the endpoint being fetched
    serverCap,     \* largest page the server is willing to return
    fkind,         \* "page": fetchAllWithPagination, "offset": fetchAllPaginated, "single": get
    flimit,        \* argument perPage / limit
    fpc,           \* position in the fetch: "idle", "request", "done", "threw"
    fpos,          \* local `page` (from 1) or `offset` (from 0)
    allItems,      \* local `allItems`
    lastResp,      \* the response handled last: its results and whether next is non-null
    fout,          \* the error the fetch failed with
    \* ---- DocsieSync.syncAll (sync/sync.ts) and runSync (cli/run.ts) ----
    variant,       \* which of the two connectors: "article" (flat listing) or "document" (per workspace)
    scfg,          \* SyncConfig: a function on the keys present (workspaceIds)
    srcWorkspaces, \* the source: its workspaces
    srcRecords,    \* the source: its articles / documents
    spc,           \* position in syncAll
    targetWs,      \* local `targetWorkspaces`
    wsIdx,         \* index of the workspace being fetched
    docList,       \* local `docList`
    docIdx,        \* index of the document being fetched in full
    fetched,       \* local `allArticles` / `allFullDocs`
    sresult,       \* local `result` : SyncResult
    sout,          \* the error syncAll failed with
    run,           \* runSync's RunResult
    \* ---- DocsieClient: construction, get and its rate limiter ----
    ckind,         \* which client: "content" (docsie/content.ts) or "client" (docsie/client.ts)
    ccfg,          \* DocsieClientConfig: a function on the keys present
    cpc,           \* the constructor: "idle", "new" (about to run), "ready", "threw"
    cout,          \* the error the constructor threw
    jobs,          \* per caller: where its get() stands, what it asked, what it got
    queue,         \* the limiter's queue: callers whose job waits to be launched
    now,           \* the clock (ms)
    nextSlot,      \* the limiter: earliest time at which it launches the next job
    \* ---- docToMarkdown (docsie/content.ts) ----
    blocks,        \* doc.blocks of the argument
    md,            \* position, loop index, locals `orderedListIndex` and `lines`, result
    \* ---- runValidate (cli/run.ts) and runValidation (sync/validate.ts) ----
    val,           \* which command runs, position in runValidation, the two checks, its result
    \* ---- observation ----
    log            \* every operation call, sleep and console line, in order

rvars == <<rcfg, rpc, attempt, currentDelay, lastError, rout>>
uvars == <<ucfg, uretry, documents, upc, chunks, ci, di, result, uout>>
fvars == <<served, serverCap, fkind, flimit, fpc, fpos, allItems, lastResp, fout>>
vars == <<rcfg, rpc, attempt, currentDelay, lastError, rout,
          ucfg, uretry, documents, upc, chunks, ci, di, result, uout,
          served, serverCap, fkind, flimit, fpc, fpos, allItems, lastResp, fout,
          variant, scfg, srcWorkspaces, srcRecords, spc, targetWs, wsIdx, docList,
          docIdx, fetched, sresult, sout, run,
          ckind, ccfg, cpc, cout, jobs, queue, now, nextSlot, blocks, md, val, log>>
cvars == <<ckind, ccfg, cpc, cout, jobs, queue, now, nextSlot>>
mvars == <<blocks, md>>
vvars == <<val>>
svars == <<variant, scfg, srcWorkspaces, srcRecords, spc, targetWs, wsIdx, docList,
           docIdx, fetched, sresult, sout, run,
           ckind, ccfg, cpc, cout, jobs, queue, now, nextSlot, blocks, md, val>>

----------------------------------------------------------------------------
(* Bounds of the model *)
MaxAttemptsBound == 2      \* largest explicit maxRetries tried
MaxDocs == 3               \* longest document list handed to upload
MaxItems == 5              \* most items a server collection holds
MaxPageSize == 3           \* largest perPage / limit argument tried
ExtraRequests == 2         \* requests allowed beyond MaxItems (a page size of 0 never ends)
MaxRecords == 2            \* most records the source holds in a sync run
MaxWorkspaces == 2         \* most workspaces the source holds in a sync run
DefaultPageSize == 1       \* the default perPage / limit of the client (100), scaled down
ExtraChunkSteps == 1       \* chunkArray iterations allowed beyond MaxDocs (non-positive sizes never end)
MaxRuns == 2               \* most runs of runSync against the same source and destination
MaxCallers == 3            \* callers that use one client concurrently
MaxGets == 3               \* get calls made on one client, all callers together
MaxBlocks == 4             \* longest block list handed to docToMarkdown

(* Program constants *)
DEFAULT_MAX_RETRIES == 3
DEFAULT_INITIAL_DELAY_MS == 1000
DEFAULT_BACKOFF_MULTIPLIER == 2
DEFAULT_MAX_DELAY_MS == 30000
DEFAULT_CHUNK_SIZE == 50
UPLOAD_MAX_RETRIES == 3
UPLOAD_INITIAL_DELAY_MS == 1000
UPLOAD_BACKOFF_MULTIPLIER == 2

----------------------------------------------------------------------------
(* Values *)
Min(a, b) == IF a <= b THEN a ELSE b
Max(a, b) == IF a >= b THEN a ELSE b

\* `cfg.k ?? d`
Opt(cfg, k, d) == IF k \in DOMAIN cfg THEN cfg[k] ELSE d

\* all partial functions from a subset of keys into vals
Partial(keys, vals) == UNION { [ks -> vals] : ks \in SUBSET keys }

\* JavaScript values that matter here: Error objects (identity = id), strings,
\* plain results, undefined.  id 0 marks an Error object created by withRetry.
Undefined == [kind |-> "undefined", message |-> "undefined", id |-> 0]
ErrorObjects == { [kind |-> "Error", message |-> "Fail 1", id |-> 1],
                  [kind |-> "Error", message |-> "Fail 2", id |-> 2] }
NonErrorThrown == { [kind |-> "string", message |-> "timeout", id |-> 3] }
ThrownValues == ErrorObjects \cup NonErrorThrown
ResultValues == { [kind |-> "value", message |-> "success", id |-> 4],
                  [kind |-> "value", message |-> "created", id |-> 5] }

\* String(v) / error.message
MessageOf(v) == v.message

\* retry.ts:49  error instanceof Error ? error : new Error(String(error))
ToError(v) == IF v.kind = "Error" THEN v
              ELSE [kind |-> "Error", message |-> MessageOf(v), id |-> 0]

\* retry.ts:49  lastError = <the caught value as an Error>
RecordErrorKeepFirst(prev, v) == IF prev = Undefined THEN ToError(v) ELSE prev
RecordError(prev, v) == ToError(v)

\* retry.ts:45  attempt <= maxRetries
RetryLoopCondOneMore(a, m) == a <= m + 1
RetryLoopCond(a, m) == a <= m

\* retry.ts:51  attempt < maxRetries
RetryShouldWaitAlways(a, m) == a <= m
RetryShouldWait(a, m) == a < m

\* retry.ts:61  Math.min(currentDelay * backoffMultiplier, maxDelayMs)
NextDelay(d, mult, cap) == Min(d * mult, cap)

\* one observable event: e = kind, n/m/k = numbers, d = the document concerned
Ev(e, n, m, k, d) == [e |-> e, n |-> n, m |-> m, k |-> k, d |-> d]

\* a MavenKnowledgeDocument (transform.ts); referenceId 0: no document
\* texts are tuples; the empty string is << >>
NoDoc == [referenceId |-> 0, title |-> << >>, content |-> << >>, metadata |-> << >>]

\* the document the current operation call is made for (withRetry used alone: none)
CurDoc == IF upc = "inRetry" THEN chunks[ci][di] ELSE NoDoc

\* what the wrapped operation can resolve to / reject with: anything for a bare
\* withRetry; the create-document call of the uploader resolves to its response
\* and rejects with an Error or (tried where the uploader stands alone and
\* allows a single attempt) with a non-Error value
CreateResponse == [kind |-> "value", message |-> "created", id |-> 5]
OpResults == IF upc = "inRetry" THEN {CreateResponse} ELSE ResultValues
OpThrown == IF upc = "inRetry"
            THEN {v \in ThrownValues :
                    v.id \in (IF spc = "upload" \/ Opt(rcfg, "maxRetries", DEFAULT_MAX_RETRIES) > 1
                              THEN {1} ELSE {1, 3})}
            ELSE ThrownValues

----------------------------------------------------------------------------
(* withRetry *)
MaxRetriesOf(cfg) == Opt(cfg, "maxRetries", DEFAULT_MAX_RETRIES)
InitialDelayOf(cfg) == Opt(cfg, "initialDelayMs", DEFAULT_INITIAL_DELAY_MS)
MultiplierOf(cfg) == Opt(cfg, "backoffMultiplier", DEFAULT_BACKOFF_MULTIPLIER)
MaxDelayOf(cfg) == Opt(cfg, "maxDelayMs", DEFAULT_MAX_DELAY_MS)

\* the values tried for each key of a RetryConfig (an absent key takes its default)
MaxRetriesTried == (-1) .. MaxAttemptsBound
InitialDelaysTried == {1, 5}
MultipliersTried == {1, 3}
MaxDelaysTried == {2}

RetryConfigs ==
    { c \in Partial({"maxRetries", "initialDelayMs", "backoffMultiplier", "maxDelayMs"},
                    MaxRetriesTried \cup InitialDelaysTried \cup MultipliersTried
                        \cup MaxDelaysTried) :
        /\ "maxRetries" \in DOMAIN c => c["maxRetries"] \in MaxRetriesTried
        /\ "initialDelayMs" \in DOMAIN c => c["initialDelayMs"] \in InitialDelaysTried
        /\ "backoffMultiplier" \in DOMAIN c => c["backoffMultiplier"] \in MultipliersTried
        /\ "maxDelayMs" \in DOMAIN c => c["maxDelayMs"] \in MaxDelaysTried }

\* retry.ts:37-43: entry of withRetry(fn, cfg)
RetryEnter(cfg) ==
    /\ rcfg' = cfg
    /\ rpc' = "loop"
    /\ attempt' = 1
    /\ currentDelay' = InitialDelayOf(cfg)
    /\ lastError' = Undefined
    /\ rout' = Undefined

\* retry.ts:45-47: the loop condition holds, fn() is awaited and resolves
RetryAttemptOk ==
    /\ rpc = "loop"
    /\ RetryLoopCond(attempt, MaxRetriesOf(rcfg))
    /\ \E v \in OpResults :
         /\ rout' = v
         /\ log' = Append(log, Ev("ok", v.id, attempt, 0, CurDoc))
    /\ rpc' = "returned"
    /\ UNCHANGED <<rcfg, attempt, currentDelay, lastError>>

\* retry.ts:45-67: the loop condition holds, fn() is awaited and rejects
RetryAttemptFail ==
    /\ rpc = "loop"
    /\ RetryLoopCond(attempt, MaxRetriesOf(rcfg))
    /\ \E v \in OpThrown :
         /\ lastError' = RecordError(lastError, v)
         /\ IF RetryShouldWait(attempt, MaxRetriesOf(rcfg))
            THEN /\ log' = log \o << Ev("fail", v.id, attempt, 0, CurDoc),
                                      Ev("warn", attempt, 0, 0, CurDoc) >>
                 /\ rpc' = "sleep"
                 /\ attempt' = attempt
            ELSE /\ log' = log \o << Ev("fail", v.id, attempt, 0, CurDoc),
                                      Ev("finalwarn", MaxRetriesOf(rcfg), 0, 0, CurDoc) >>
                 /\ rpc' = "loop"
                 /\ attempt' = attempt + 1
    /\ UNCHANGED <<rcfg, currentDelay, rout>>

\* retry.ts:58-61 and the loop increment: sleep(currentDelay) elapses
RetrySleep ==
    /\ rpc = "sleep"
    /\ log' = Append(log, Ev("sleep", currentDelay, attempt, 0, CurDoc))
    /\ currentDelay' = NextDelay(currentDelay, MultiplierOf(rcfg), MaxDelayOf(rcfg))
    /\ attempt' = attempt + 1
    /\ rpc' = "loop"
    /\ UNCHANGED <<rcfg, lastError, rout>>

\* retry.ts:71: the loop condition fails, throw lastError
RetryThrow ==
    /\ rpc = "loop"
    /\ ~RetryLoopCond(attempt, MaxRetriesOf(rcfg))
    /\ rout' = lastError
    /\ rpc' = "threw"
    /\ UNCHANGED <<rcfg, attempt, currentDelay, lastError, log>>

----------------------------------------------------------------------------
(* MavenUploader *)
EmptyResult == [total |-> 0, success |-> 0, failed |-> 0, errors |-> << >>]

\* uploader.ts:45  config.chunkSize ?? DEFAULT_CHUNK_SIZE
ChunkSizeOf(cfg) == Opt(cfg, "chunkSize", DEFAULT_CHUNK_SIZE)

\* Array.prototype.slice(start, end) on a sequence (0-based, end exclusive,
\* negative indices count from the end)
SliceIndex(len, k) == IF k < 0 THEN Max(len + k, 0) ELSE Min(k, len)
Slice(arr, start, end) ==
    LET from == SliceIndex(Len(arr), start)
        to == SliceIndex(Len(arr), end)
    IN  IF from >= to THEN << >> ELSE SubSeq(arr, from + 1, to)

\* uploader.ts:92-97: the RetryConfig upload() builds for a document
UploadRetryConfig(rc) ==
    [k \in {"maxRetries", "initialDelayMs", "backoffMultiplier"} |->
        CASE k = "maxRetries" -> Opt(rc, "maxRetries", UPLOAD_MAX_RETRIES)
          [] k = "initialDelayMs" -> Opt(rc, "initialDelayMs", UPLOAD_INITIAL_DELAY_MS)
          [] k = "backoffMultiplier" -> Opt(rc, "backoffMultiplier", UPLOAD_BACKOFF_MULTIPLIER)]

\* uploader.ts:100  catch (error): every thrown value is caught
UploadCatches(v) == TRUE

\* uploader.ts:76, 100-112: after the catch block the for-of loop goes on to the
\* next document of the chunk
AfterFailureLeaveChunk(d, len) == len + 1
AfterFailure(d, len) == d + 1

\* uploader.ts:99  result.success++
SuccessAfterReset(n) == 1
SuccessAfter(n) == n + 1

\* uploader.ts:127  i += size
ChunkNextByOne(i, size) == i + 1
ChunkNext(i, size) == i + size

\* uploader.ts:76  the for-of over the chunk is exhausted
ChunkFinishedEarly(d, len) == d > 1
ChunkFinished(d, len) == ~(d <= len)

\* uploader.ts:105  error instanceof Error ? error.message : String(error)
ErrorText(v) == MessageOf(v)

\* uploader.ts:53-65: entry of upload(docs)
UploadEnter(docs) ==
    /\ documents' = docs
    /\ result' = [total |-> Len(docs), success |-> 0, failed |-> 0, errors |-> << >>]
    /\ chunks' = << >>
    /\ ci' = 0
    /\ di' = 0
    /\ IF Len(docs) = 0
       THEN upc' = "returned" /\ uout' = [EmptyResult EXCEPT !.total = Len(docs)]
       ELSE upc' = "chunking" /\ uout' = uout

\* uploader.ts:127-129: one iteration of chunkArray's loop
ChunkArrayStep ==
    /\ upc = "chunking"
    /\ ci < Len(documents)
    /\ Len(chunks) < MaxDocs + ExtraChunkSteps
    /\ chunks' = Append(chunks, Slice(documents, ci, ci + ChunkSizeOf(ucfg)))
    /\ ci' = ChunkNext(ci, ChunkSizeOf(ucfg))
    /\ UNCHANGED <<ucfg, uretry, documents, upc, di, result, uout, log>>
    /\ UNCHANGED rvars

\* uploader.ts:127-129: the iterations of chunkArray's loop beyond the
\* MaxDocs + ExtraChunkSteps recorded ones: the loop condition still holds and
\* the body runs again; the slices it pushes are no longer recorded
ChunkArrayGoesOn ==
    /\ upc = "chunking"
    /\ ci < Len(documents)
    /\ ~(Len(chunks) < MaxDocs + ExtraChunkSteps)
    /\ upc' = "chunkingOn"
    /\ UNCHANGED <<ucfg, uretry, documents, chunks, ci, di, result, uout, log>>
    /\ UNCHANGED rvars

ChunkArrayGoesOnBody ==
    /\ upc = "chunkingOn"
    /\ upc' = "chunking"
    /\ UNCHANGED <<ucfg, uretry, documents, chunks, ci, di, result, uout, log>>
    /\ UNCHANGED rvars

\* uploader.ts:130, 67: chunkArray returns, the chunk loop starts at its first chunk
ChunkArrayReturn ==
    /\ upc = "chunking"
    /\ ~(ci < Len(documents))
    /\ upc' = "chunkLoop"
    /\ ci' = 1
    /\ UNCHANGED <<ucfg, uretry, documents, chunks, di, result, uout, log>>
    /\ UNCHANGED rvars

\* uploader.ts:67-73: next chunk, progress line
UploadChunkBegin ==
    /\ upc = "chunkLoop"
    /\ ci <= Len(chunks)
    /\ log' = Append(log, Ev("chunk", ci, Len(chunks), Len(chunks[ci]), NoDoc))
    /\ di' = 1
    /\ upc' = "docLoop"
    /\ UNCHANGED <<ucfg, uretry, documents, chunks, ci, result, uout>>
    /\ UNCHANGED rvars

\* uploader.ts:76-98: next document of the chunk, withRetry is entered
UploadDocBegin ==
    /\ upc = "docLoop"
    /\ di <= Len(chunks[ci])
    /\ upc' = "inRetry"
    /\ RetryEnter(UploadRetryConfig(uretry))
    /\ UNCHANGED <<ucfg, uretry, documents, chunks, ci, di, result, uout, log>>

\* uploader.ts:99: withRetry returned
UploadDocSuccess ==
    /\ upc = "inRetry"
    /\ rpc = "returned"
    /\ result' = [result EXCEPT !.success = SuccessAfter(@)]
    /\ di' = di + 1
    /\ upc' = "docLoop"
    /\ rpc' = "idle"
    /\ UNCHANGED <<ucfg, uretry, documents, chunks, ci, uout, log>>
    /\ UNCHANGED <<rcfg, attempt, currentDelay, lastError, rout>>

\* uploader.ts:100-111: withRetry threw
UploadDocFailed ==
    /\ upc = "inRetry"
    /\ rpc = "threw"
    /\ rpc' = "idle"
    /\ IF UploadCatches(rout)
       THEN /\ result' = [result EXCEPT
                             !.failed = @ + 1,
                             !.errors = Append(@, [docId |-> chunks[ci][di].referenceId,
                                                   error |-> ErrorText(rout)])]
            /\ log' = Append(log, Ev("error", 0, 0, 0, chunks[ci][di]))
            /\ di' = AfterFailure(di, Len(chunks[ci]))
            /\ upc' = "docLoop"
       ELSE /\ upc' = "raised"
            /\ UNCHANGED <<result, log, di>>
    /\ UNCHANGED <<ucfg, uretry, documents, chunks, ci, uout>>
    /\ UNCHANGED <<rcfg, attempt, currentDelay, lastError, rout>>

\* uploader.ts:114-116: the chunk is finished, completion line
UploadChunkEnd ==
    /\ upc = "docLoop"
    /\ ChunkFinished(di, Len(chunks[ci]))
    /\ log' = Append(log, Ev("chunkdone", ci, result.success, result.failed, NoDoc))
    /\ ci' = ci + 1
    /\ upc' = "chunkLoop"
    /\ UNCHANGED <<ucfg, uretry, documents, chunks, di, result, uout>>
    /\ UNCHANGED rvars

\* uploader.ts:119: return result
UploadReturn ==
    /\ upc = "chunkLoop"
    /\ ~(ci <= Len(chunks))
    /\ upc' = "returned"
    /\ uout' = result
    /\ UNCHANGED <<ucfg, uretry, documents, chunks, ci, di, result, log>>
    /\ UNCHANGED rvars

----------------------------------------------------------------------------
(* DocsieClient: get and the two paginated fetches *)
NoResponse == [results |-> << >>, next |-> FALSE]

\* errors a get can fail with: fetchWithAuth's API error for a non-2xx response,
\* or the error of fetch() itself
FetchErrors == { [kind |-> "Error", message |-> "Docsie API error: 401 Unauthorized", id |-> 6],
                 [kind |-> "Error", message |-> "Network error", id |-> 7] }

\* content.ts:291-292 / client.ts:182-183: the method of every request
\* fetchWithAuth sends
RequestMethodDelete == "DELETE"
RequestMethod == "GET"

\* the server: a request with a safe method leaves the collection as it is, any
\* other request may change it (here: it removes the collection)
SafeMethods == {"GET", "HEAD"}
ServerAfter(method, items) == IF method \in SafeMethods THEN items ELSE << >>

\* the source answers a request of the run: what it holds afterwards
SourceAfterRequest ==
    /\ srcWorkspaces' = ServerAfter(RequestMethod, srcWorkspaces)
    /\ srcRecords' = ServerAfter(RequestMethod, srcRecords)

\* the server: it returns at most serverCap items per page whatever was asked
ServedPageSize(limit, cap) == Min(limit, cap)

\* page-number idiom: page k holds items (k-1)*s+1 .. k*s
ServerPage(items, page, perPage, cap) ==
    LET s == ServedPageSize(perPage, cap) IN
    [results |-> Slice(items, (page - 1) * s, page * s), next |-> FALSE]

\* offset idiom: { results: items offset+1 .. offset+s, next: non-null iff more follow }
ServerOffset(items, offset, limit, cap) ==
    LET s == ServedPageSize(limit, cap) IN
    [results |-> Slice(items, offset, offset + s), next |-> offset + s < Len(items)]

\* client.ts:223  items.length < perPage  => hasMore = false
PageHasMoreWhileNonEmpty(n, perPage) == n > 0
PageHasMore(n, perPage) == ~(n < perPage)

\* content.ts:329  response.next === null || response.results.length < limit
OffsetHasMoreUntilShort(next, n, limit) == ~(n < limit)
OffsetHasMore(next, n, limit) == ~(~next \/ n < limit)

\* content.ts:332  offset += limit
OffsetAdvanceSkip(offset, limit, n) == offset + limit + 1
OffsetAdvance(offset, limit, n) == offset + limit

NumRequests == Cardinality({i \in 1 .. Len(log) : log[i].e \in {"getpage", "getoffset", "get", "getfail"}})

\* a fetch with a page size of at least 1 ends by itself; with a page size of 0
\* it never does, and the model stops it after MaxItems + ExtraRequests requests
RequestAllowed == flimit >= 1 \/ fkind = "single" \/ NumRequests < MaxItems + ExtraRequests

\* client.ts:208-210 / content.ts:317-319: entry of a paginated fetch
FetchEnter(kind, items, limit) ==
    /\ served' = items
    /\ fkind' = kind
    /\ flimit' = limit
    /\ fpc' = "request"
    /\ fpos' = IF kind = "page" THEN 1 ELSE 0
    /\ allItems' = << >>
    /\ lastResp' = NoResponse
    /\ fout' = Undefined
    /\ UNCHANGED serverCap

\* client.ts:212-228: one iteration of fetchAllWithPagination whose get resolves
FetchPageResponse ==
    /\ fpc = "request"
    /\ fkind = "page"
    /\ RequestAllowed
    /\ LET resp == ServerPage(served, fpos, flimit, serverCap) IN
         /\ lastResp' = resp
         /\ log' = log \o << Ev("getpage", fpos, flimit, Len(resp.results), NoDoc),
                              Ev("pagelog", fpos, Len(resp.results), 0, NoDoc) >>
         /\ allItems' = allItems \o resp.results
         /\ IF PageHasMore(Len(resp.results), flimit)
            THEN fpos' = fpos + 1 /\ fpc' = "request"
            ELSE fpos' = fpos /\ fpc' = "done"
    /\ served' = ServerAfter(RequestMethod, served)
    /\ UNCHANGED <<serverCap, fkind, flimit, fout>>

\* content.ts:321-334: one iteration of fetchAllPaginated whose get resolves
FetchOffsetResponse ==
    /\ fpc = "request"
    /\ fkind = "offset"
    /\ RequestAllowed
    /\ LET resp == ServerOffset(served, fpos, flimit, serverCap) IN
         /\ lastResp' = resp
         /\ log' = Append(log, Ev("getoffset", fpos, flimit, Len(resp.results), NoDoc))
         /\ allItems' = allItems \o resp.results
         /\ IF OffsetHasMore(resp.next, Len(resp.results), flimit)
            THEN fpos' = OffsetAdvance(fpos, flimit, Len(resp.results)) /\ fpc' = "request"
            ELSE fpos' = fpos /\ fpc' = "done"
    /\ served' = ServerAfter(RequestMethod, served)
    /\ UNCHANGED <<serverCap, fkind, flimit, fout>>

\* client.ts:172-197: a plain get that resolves with the whole payload
FetchSingleResponse ==
    /\ fpc = "request"
    /\ fkind = "single"
    /\ lastResp' = [results |-> served, next |-> FALSE]
    /\ log' = Append(log, Ev("get", 0, 0, Len(served), NoDoc))
    /\ allItems' = served
    /\ fpc' = "done"
    /\ served' = ServerAfter(RequestMethod, served)
    /\ UNCHANGED <<serverCap, fkind, flimit, fpos, fout>>

\* client.ts:182-194 / content.ts:291-303: the awaited get rejects; nothing in
\* the fetch loop catches it
FetchFail ==
    /\ fpc = "request"
    /\ RequestAllowed
    /\ \E v \in FetchErrors :
         /\ fout' = v
         /\ log' = Append(log, Ev("getfail", v.id, fpos, 0, NoDoc))
    /\ fpc' = "threw"
    /\ UNCHANGED <<served, serverCap, fkind, flimit, fpos, allItems, lastResp>>

FetchIdle ==
    /\ served = << >>
    /\ serverCap = 1
    /\ fkind = "single"
    /\ flimit = 0
    /\ fpc = "idle"
    /\ fpos = 0
    /\ allItems = << >>
    /\ lastResp = NoResponse
    /\ fout = Undefined

RetryIdle ==
    /\ rcfg = << >>
    /\ rpc = "idle"
    /\ attempt = 0
    /\ currentDelay = 0
    /\ lastError = Undefined
    /\ rout = Undefined

----------------------------------------------------------------------------
(* DocsieClient: constructor, get, the rate limiter, fetchWithAuth *)
\* content.ts:256-257 / client.ts:146-147
DEFAULT_MAX_CONCURRENT == 5
DEFAULT_MIN_TIME == 200

Callers == 1 .. MaxCallers

\* a DocsieClientConfig; apiKey is given by its length (0: the empty string)
ApiKeysTried == {0, 1}
MaxConcurrentTried == {1, 2}
MinTimesTried == {2}
ClientConfigs ==
    { c \in Partial({"apiKey", "maxConcurrent", "minTime"},
                    ApiKeysTried \cup MaxConcurrentTried \cup MinTimesTried) :
        /\ "apiKey" \in DOMAIN c => c["apiKey"] \in ApiKeysTried
        /\ "maxConcurrent" \in DOMAIN c => c["maxConcurrent"] \in MaxConcurrentTried
        /\ "minTime" \in DOMAIN c => c["minTime"] \in MinTimesTried }

\* content.ts:265 / client.ts:155  !config.apiKey is false
ApiKeyDefined(cfg) == "apiKey" \in DOMAIN cfg
ApiKeyPresent(cfg) == "apiKey" \in DOMAIN cfg /\ cfg["apiKey"] > 0

\* content.ts:266 / client.ts:156
ConfigError == [kind |-> "Error", message |-> "Docsie API key is required", id |-> 8]

\* content.ts:272-275 / client.ts:163-166  the options given to the limiter
MaxConcurrentUnlimited(cfg) == MaxCallers + 1
MaxConcurrentOf(cfg) == Opt(cfg, "maxConcurrent", DEFAULT_MAX_CONCURRENT)
MinTimeNone(cfg) == 0
MinTimeOf(cfg) == Opt(cfg, "minTime", DEFAULT_MIN_TIME)

\* what fetch() can settle with: a response (status, statusText) or a rejection
\* with an error of its own (kind "net")
NetworkError == [kind |-> "Error", message |-> "Network error", id |-> 7]
Responses ==
    { [kind |-> "http", status |-> 200, statusText |-> "OK", error |-> Undefined],
      [kind |-> "http", status |-> 401, statusText |-> "Unauthorized", error |-> Undefined],
      [kind |-> "net", status |-> 0, statusText |-> "", error |-> NetworkError] }
NoHttpResponse == [kind |-> "none", status |-> 0, statusText |-> "", error |-> Undefined]
\* the endpoint a caller asks for
EndpointFor(c) == IF c = 1 THEN "/workspaces/" ELSE "/articles/"

\* Response.ok
ResponseOk(resp) == resp.status \in 200 .. 299

\* content.ts:299-303 / client.ts:190-194  the Error thrown for a response that
\* is not ok; its message is built from the fields listed here
ApiError(kind, endpoint, resp) ==
    IF kind = "content"
    THEN [kind |-> "Error", message |-> "Docsie API error", id |-> 6,
          status |-> resp.status, statusText |-> resp.statusText, endpoint |-> endpoint]
    ELSE [kind |-> "Error", message |-> "Docsie API error", id |-> 6,
          status |-> resp.status, statusText |-> resp.statusText]

JsonValue == [kind |-> "value", message |-> "json", id |-> 9]

\* content.ts:288-306 / client.ts:179-197  fetchWithAuth: what it returns or throws
FetchWithAuth(kind, endpoint, resp) ==
    IF resp.kind = "net" THEN resp.error
    ELSE IF ~ResponseOk(resp) THEN ApiError(kind, endpoint, resp)
    ELSE JsonValue

IdleJob == [pc |-> "idle", endpoint |-> "", asked |-> 0, resp |-> NoHttpResponse,
            out |-> Undefined]

\* the get calls made so far: those launched and those waiting
GetsCalled == Cardinality({i \in 1 .. Len(log) : log[i].e = "request"}) + Len(queue)

\* the client's requests in flight
InFlight == { c \in DOMAIN jobs : jobs[c].pc = "running" }

\* content.ts:264-276 / client.ts:154-167: new DocsieClient(config)
ClientConstruct ==
    /\ cpc = "new"
    /\ IF ApiKeyPresent(ccfg)
       THEN cpc' = "ready" /\ cout' = Undefined
       ELSE cpc' = "threw" /\ cout' = ConfigError
    /\ UNCHANGED <<ckind, ccfg, jobs, queue, now, nextSlot, log>>

\* content.ts:281-283 / client.ts:172-174: get(endpoint) hands the request to
\* limiter.schedule; the job waits in the limiter's queue
GetEntersRunning(c) == "running"
GetEnters(c) == "queued"

CallGet(c, endpoint) ==
    /\ cpc = "ready"
    /\ jobs[c].pc = "idle"
    /\ GetsCalled < MaxGets
    /\ jobs' = [jobs EXCEPT ![c] = [pc |-> GetEnters(c), endpoint |-> endpoint,
                                    asked |-> now, resp |-> NoHttpResponse,
                                    out |-> Undefined]]
    /\ IF GetEnters(c) = "queued"
       THEN queue' = Append(queue, c) /\ UNCHANGED log
       ELSE queue' = queue /\ log' = Append(log, Ev("request", c, now, 0, NoDoc))
    /\ UNCHANGED <<ckind, ccfg, cpc, cout, now, nextSlot>>

\* the limiter launches the job at the head of its queue when fewer than
\* maxConcurrent jobs run and minTime has passed since the last launch; the
\* job calls fetch() at once (event "request", k = 1: launched by the limiter)
LimiterLaunch ==
    /\ queue # << >>
    /\ Cardinality(InFlight) < MaxConcurrentOf(ccfg)
    /\ now >= nextSlot
    /\ jobs' = [jobs EXCEPT ![Head(queue)].pc = "running"]
    /\ queue' = Tail(queue)
    /\ nextSlot' = now + MinTimeOf(ccfg)
    /\ log' = Append(log, Ev("request", Head(queue), now, 1, NoDoc))
    /\ UNCHANGED <<ckind, ccfg, cpc, cout, now>>

\* content.ts:291-305 / client.ts:182-196: fetch() settles and fetchWithAuth
\* returns the parsed body or throws; the promise of get settles the same way.
\* A caller that got its value is free to call get again; one that got an
\* error stops.
FetchSettles(c) ==
    /\ jobs[c].pc = "running"
    /\ \E resp \in Responses :
         LET out == FetchWithAuth(ckind, jobs[c].endpoint, resp) IN
         jobs' = [jobs EXCEPT ![c] = [@ EXCEPT !.pc = IF out.kind = "Error" THEN "threw"
                                                        ELSE "idle",
                                                  !.asked = 0,
                                                  !.resp = resp,
                                                  !.out = out]]
    /\ UNCHANGED <<ckind, ccfg, cpc, cout, queue, now, nextSlot, log>>

\* time passes while a job waits for the limiter's next slot: the limiter's
\* timer fires at that slot
ClockAdvance ==
    /\ cpc = "ready"
    /\ queue # << >>
    /\ now < nextSlot
    /\ now' = nextSlot
    /\ UNCHANGED <<ckind, ccfg, cpc, cout, jobs, queue, nextSlot, log>>

ClientIdle ==
    /\ ckind = "content"
    /\ ccfg = << >>
    /\ cpc = "idle"
    /\ cout = Undefined
    /\ jobs = << >>
    /\ queue = << >>
    /\ now = 0
    /\ nextSlot = 0

----------------------------------------------------------------------------
(* docToMarkdown (docsie/content.ts) *)
\* A DocBlock: its type tag, its text ("": empty or absent) and data.src
\* ("": absent).  "mystery" stands for any type tag convertBlock has no case for.
MkBlock(type, text, src) == [type |-> type, text |-> text, src |-> src]
BlockKinds ==
    { MkBlock("unstyled", "a", ""),
      MkBlock("unstyled", "", ""),
      MkBlock("ordered-list-item", "b", ""),
      MkBlock("figure", "", "u"),
      MkBlock("figure", "", ""),
      MkBlock("chart", "c", ""),
      MkBlock("mystery", "d", ""),
      MkBlock("mystery", "", "") }

\* What convertBlock returns: null, or a string.  A string is given by the
\* way it is built (kind), the list number in it (n) and the text or URL in
\* it; the empty string is EmptyLine.  Two strings are equal exactly when
\* these agree.
Null == [kind |-> "null", n |-> 0, text |-> ""]
EmptyLine == [kind |-> "plain", n |-> 0, text |-> ""]
Line(kind, n, text) == [kind |-> kind, n |-> n, text |-> text]

\* content.ts:100-106  convertFigure
ConvertFigure(b) == IF b.src = "" THEN EmptyLine ELSE Line("image", 0, b.src)

\* content.ts:91-93  case "chart": return null
ConvertChartEmpty(b) == EmptyLine
ConvertChart(b) == Null

\* content.ts:95-97  default: return block.text || null
ConvertDefault(b) == IF b.text # "" THEN Line("plain", 0, b.text) ELSE Null

\* content.ts:48-98  convertBlock(block, orderedIndex)
ConvertBlock(b, orderedIndex) ==
    CASE b.type = "unstyled" -> Line("plain", 0, b.text)
      [] b.type = "ordered-list-item" -> Line("ordered", orderedIndex + 1, b.text)
      [] b.type = "figure" -> ConvertFigure(b)
      [] b.type = "chart" -> ConvertChart(b)
      [] OTHER -> ConvertDefault(b)

\* content.ts:28-30  block.type !== "ordered-list-item": the counter is reset
ResetsCounterNever(type) == FALSE
ResetsCounter(type) == type # "ordered-list-item"

\* content.ts:27-39  one iteration of the loop over doc.blocks
MdStart == [orderedListIndex |-> 0, lines |-> << >>, rendered |-> << >>]
MdStep(st, b) ==
    LET idx == IF ResetsCounter(b.type) THEN 0 ELSE st.orderedListIndex
        line == ConvertBlock(b, idx)
    IN  [orderedListIndex |-> IF b.type = "ordered-list-item" THEN idx + 1 ELSE idx,
         lines |-> IF line # Null THEN Append(st.lines, line) ELSE st.lines,
         rendered |-> Append(st.rendered, line)]

\* content.ts:42  lines.join("\n\n").trim(): the lines in order, one blank line
\* between two neighbours; trim removes the empty strings at either end
\* together with their separators, an empty string further in stays (and
\* leaves two blank lines in a row)
RECURSIVE TrimStart(_)
TrimStart(ls) == IF ls # << >> /\ Head(ls) = EmptyLine THEN TrimStart(Tail(ls)) ELSE ls
RECURSIVE TrimEnd(_)
TrimEnd(ls) == IF ls # << >> /\ ls[Len(ls)] = EmptyLine
               THEN TrimEnd(SubSeq(ls, 1, Len(ls) - 1)) ELSE ls
JoinTrim(ls) == TrimEnd(TrimStart(ls))

\* content.ts:18-43  docToMarkdown as a function of the block list
RECURSIVE MdFold(_, _)
MdFold(st, bs) == IF bs = << >> THEN st ELSE MdFold(MdStep(st, Head(bs)), Tail(bs))
DocToMarkdown(bs) == IF Len(bs) = 0 THEN << >> ELSE JoinTrim(MdFold(MdStart, bs).lines)

\* content.ts:19-21: entry of docToMarkdown; no blocks: return ""
MarkdownEnter ==
    /\ md.pc = "enter"
    /\ md' = IF Len(blocks) = 0
             THEN [md EXCEPT !.pc = "done", !.out = << >>]
             ELSE [md EXCEPT !.pc = "loop", !.i = 1]
    /\ UNCHANGED blocks

\* content.ts:26-39: the loop body for the next block
MarkdownBlock ==
    /\ md.pc = "loop"
    /\ md.i <= Len(blocks)
    /\ md' = [md EXCEPT !.i = @ + 1, !.st = MdStep(@, blocks[md.i])]
    /\ UNCHANGED blocks

\* content.ts:42: the loop is over, return lines.join("\n\n").trim()
MarkdownReturn ==
    /\ md.pc = "loop"
    /\ ~(md.i <= Len(blocks))
    /\ md' = [md EXCEPT !.pc = "done", !.out = JoinTrim(md.st.lines)]
    /\ UNCHANGED blocks

NoMarkdown == [pc |-> "idle", i |-> 0, st |-> MdStart, out |-> << >>]
MarkdownIdle ==
    /\ blocks = << >>
    /\ md = NoMarkdown

----------------------------------------------------------------------------
(* runValidate (cli/run.ts) and runValidation (sync/validate.ts) *)
\* The result of one connection check: whether it succeeded, and the error it
\* caught when it did not
NoCheck == [done |-> FALSE, success |-> FALSE, error |-> Undefined]
DocsieCheckError == [kind |-> "Error", message |-> "Auth failed", id |-> 10]
MavenCheckError == [kind |-> "Error", message |-> "Not found", id |-> 11]
CheckResult(ok, err) == [done |-> TRUE, success |-> ok, error |-> IF ok THEN Undefined ELSE err]

NoValidation == [mode |-> "none", pc |-> "idle", docsie |-> NoCheck, maven |-> NoCheck,
                 ready |-> FALSE, err |-> Undefined]
ValidateIdle == val = NoValidation

\* validate.ts: ready is reported when both checks succeeded
ValidationReady(d, m) == d.success /\ m.success

\* run.ts:109-123  the RunResult of runValidate
RunValidateResultAlwaysZero(threw, ready, err) ==
    IF threw
    THEN [done |-> TRUE, success |-> FALSE, exitCode |-> 1, error |-> MessageOf(err)]
    ELSE [done |-> TRUE, success |-> ready, exitCode |-> 0, error |-> << >>]
RunValidateResult(threw, ready, err) ==
    IF threw
    THEN [done |-> TRUE, success |-> FALSE, exitCode |-> 1, error |-> MessageOf(err)]
    ELSE [done |-> TRUE, success |-> ready, exitCode |-> IF ready THEN 0 ELSE 1,
          error |-> << >>]

\* run.ts:92-102: runValidate builds its DocsieClient inside the try block; a
\* constructor that throws takes it to the catch block
RunValidateConstruct ==
    /\ val.mode = "validate"
    /\ val.pc = "start"
    /\ ClientConstruct
    /\ val' = [val EXCEPT !.pc = IF cpc' = "ready" THEN "docsie" ELSE "threw",
                          !.err = cout']
    /\ UNCHANGED run

\* validate.ts: runValidation checks the source through the client's get
\* methods (getWorkspaces and the listings); the check catches its error
ValidateDocsie ==
    /\ val.pc = "docsie"
    /\ \E ok \in BOOLEAN :
         /\ val' = [val EXCEPT !.docsie = CheckResult(ok, DocsieCheckError), !.pc = "maven"]
         /\ log' = Append(log, Ev("check", 1, IF ok THEN 1 ELSE 0, 0, NoDoc))
         /\ IF ok THEN SourceAfterRequest ELSE UNCHANGED <<srcWorkspaces, srcRecords>>
    /\ UNCHANGED <<run, cvars>>

\* validate.ts: runValidation checks the destination, whatever the first check gave
ValidateMaven ==
    /\ val.pc = "maven"
    /\ \E ok \in BOOLEAN :
         /\ val' = [val EXCEPT !.maven = CheckResult(ok, MavenCheckError), !.pc = "checked"]
         /\ log' = Append(log, Ev("check", 2, IF ok THEN 1 ELSE 0, 0, NoDoc))
    /\ UNCHANGED <<run, cvars>>

\* validate.ts: runValidation returns its ValidationResult
ValidationReturn ==
    /\ val.pc = "checked"
    /\ val' = [val EXCEPT !.ready = ValidationReady(val.docsie, val.maven), !.pc = "returned"]
    /\ UNCHANGED <<run, cvars, log>>

\* run.test.ts:173-181: runValidation rejects
ValidationThrows ==
    /\ val.pc \in {"docsie", "maven", "checked"}
    /\ val' = [val EXCEPT !.pc = "threw", !.err = NetworkError]
    /\ UNCHANGED <<run, cvars, log>>

\* run.ts:105-123: runValidation settled (or the constructor threw), runValidate
\* builds its RunResult
RunValidateFinish ==
    /\ val.mode = "validate"
    /\ val.pc \in {"returned", "threw"}
    /\ ~run.done
    /\ run' = RunValidateResult(val.pc = "threw", val.ready, val.err)
    /\ UNCHANGED <<val, cvars, log>>

----------------------------------------------------------------------------
(* DocsieSync.syncAll and runSync *)
\* A source record: an article (its doc blocks) or a document (its content
\* string).  body: "absent" - no doc / empty content, "empty" - an empty block
\* list, "chart" - blocks that all convert to nothing, "text" - real content.
BodyKinds == {"absent", "empty", "chart", "text"}
MkRecord(i, w, b) == [id |-> i, ws |-> w, name |-> <<"title", i>>, body |-> b]

EmptySyncResult == [workspaces |-> 0, articles |-> 0, uploaded |-> 0, failed |-> 0,
                    skipped |-> 0, errors |-> << >>]
NoRun == [done |-> FALSE, success |-> FALSE, exitCode |-> 0, error |-> << >>]

\* content.ts:18-43  docToMarkdown(article.doc), by kind of body
ConvertBody(r) == IF r.body = "text" THEN <<"md", r.id>> ELSE << >>

\* sync.ts:84-87  article.doc && article.doc.blocks && article.doc.blocks.length > 0
HasBlocks(r) == r.body \in {"chart", "text"}

\* transform.ts:50 / 59  referenceId: article.id / doc.id
ReferenceIdFresh(r) == r.id + Len(log)
ReferenceId(r) == r.id

\* transform.ts:54  content || article.name
ContentNoFallback(c, name) == c
ContentOrName(c, name) == IF c # << >> THEN c ELSE name

\* transform.ts:31-34  metadata: { source: "docsie", docsie_id: article.id }
ArticleMetadataStamped(r) == <<"docsie", r.id, Len(log)>>
ArticleMetadata(r) == <<"docsie", r.id>>

\* transform.ts: transformToMavenFormat of the article connector
\* (content || article.name, metadata source and docsie_id) and of the
\* document connector (doc.content, metadata source, docsie_id, workspace_id)
TransformArticle(r) ==
    [referenceId |-> ReferenceId(r), title |-> r.name,
     content |-> ContentOrName(ConvertBody(r), r.name),
     metadata |-> ArticleMetadata(r)]
TransformDocument(r) ==
    [referenceId |-> ReferenceId(r), title |-> r.name, content |-> ConvertBody(r),
     metadata |-> <<"docsie", r.id, r.ws>>]

\* sync.ts:113 / 230  records.map(transformToMavenFormat)
TransformArticles(seq) == [i \in 1 .. Len(seq) |-> TransformArticle(seq[i])]
TransformDocuments(seq) == [i \in 1 .. Len(seq) |-> TransformDocument(seq[i])]
TransformEvents(seq) == [i \in 1 .. Len(seq) |-> Ev("transform", seq[i].id, 0, 0, NoDoc)]

\* sync.ts:103 / 220  articlesWithContent.length === 0 / allFullDocs.length === 0
NothingToSyncNever(n) == FALSE
NothingToSync(n) == n = 0

\* sync.ts:70, 76 / 185, 208, 213  `await`: syncAll goes on when the client call
\* has resolved, that is when the whole listing (every page) was fetched
ListingCompleteOrRunning(p) == p \in {"request", "done"}
ListingComplete(p) == p = "done"

\* sync.ts:197-199  the workspaces to visit
TargetWorkspaces(cfg, wss) ==
    IF "workspaceIds" \in DOMAIN cfg
    THEN SelectSeq(wss, LAMBDA w : w \in cfg["workspaceIds"])
    ELSE wss

RecordsOf(w) == SelectSeq(srcRecords, LAMBDA r : r.ws = w)

\* run.ts:67-81  the RunResult of runSync
RunResultFailOnErrors(threw, err) ==
    IF threw \/ sresult.failed > 0
    THEN [done |-> TRUE, success |-> FALSE, exitCode |-> 1, error |-> MessageOf(err)]
    ELSE [done |-> TRUE, success |-> TRUE, exitCode |-> 0, error |-> << >>]
RunResult(threw, err) ==
    IF threw
    THEN [done |-> TRUE, success |-> FALSE, exitCode |-> 1, error |-> MessageOf(err)]
    ELSE [done |-> TRUE, success |-> TRUE, exitCode |-> 0, error |-> << >>]

UploadUntouched == UNCHANGED <<ucfg, uretry, documents, upc, chunks, ci, di, result, uout>>
SyncLocals == <<variant, scfg, srcWorkspaces, srcRecords, run,
                ckind, ccfg, cpc, cout, jobs, queue, now, nextSlot, blocks, md, val>>

\* sync.ts:69-70 / 184-185  "Fetching workspaces from Docsie..." is logged and
\* getWorkspaces() is called
SyncListWorkspaces ==
    /\ spc = "start"
    /\ spc' = "workspaces"
    /\ FetchEnter(IF variant = "article" THEN "offset" ELSE "single",
                  srcWorkspaces, DefaultPageSize)
    /\ log' = Append(log, Ev("fetchingWs", 0, 0, 0, NoDoc))
    /\ UNCHANGED <<targetWs, wsIdx, docList, docIdx, fetched, sresult, sout>>
    /\ UNCHANGED SyncLocals
    /\ UploadUntouched
    /\ UNCHANGED rvars

\* sync.ts:71-76 (article) / 186-204 (document): the workspaces are known,
\* "Found n workspace(s)" is logged; the article connector logs "Fetching all
\* articles..." and calls getArticles()
SyncWorkspacesFetched ==
    /\ spc = "workspaces"
    /\ ListingComplete(fpc)
    /\ sresult' = [sresult EXCEPT !.workspaces = Len(allItems)]
    /\ IF variant = "article"
       THEN /\ spc' = "records"
            /\ log' = log \o << Ev("foundWs", Len(allItems), 0, 0, NoDoc),
                                 Ev("fetchingRecs", 0, 0, 0, NoDoc) >>
            /\ FetchEnter("offset", srcRecords, DefaultPageSize)
            /\ UNCHANGED <<targetWs, wsIdx>>
       ELSE /\ IF Len(allItems) = 0 THEN spc' = "returned" ELSE spc' = "wsLoop"
            /\ log' = IF Len(allItems) = 0 THEN log
                      ELSE Append(log, Ev("foundWs", Len(allItems), 0, 0, NoDoc))
            /\ targetWs' = TargetWorkspaces(scfg, allItems)
            /\ wsIdx' = 1
            /\ fpc' = "idle"
            /\ UNCHANGED <<served, serverCap, fkind, flimit, fpos, allItems, lastResp, fout>>
    /\ UNCHANGED <<docList, docIdx, fetched, sout>>
    /\ UNCHANGED SyncLocals
    /\ UploadUntouched
    /\ UNCHANGED rvars

\* sync.ts:204-208: next workspace, getDocuments(workspace.id) is called
SyncWorkspaceNext ==
    /\ spc = "wsLoop"
    /\ wsIdx <= Len(targetWs)
    /\ spc' = "docList"
    /\ FetchEnter("page", RecordsOf(targetWs[wsIdx]), DefaultPageSize)
    /\ log' = Append(log, Ev("fetchingRecs", targetWs[wsIdx], 0, 0, NoDoc))
    /\ UNCHANGED <<targetWs, wsIdx, docList, docIdx, fetched, sresult, sout>>
    /\ UNCHANGED SyncLocals
    /\ UploadUntouched
    /\ UNCHANGED rvars

\* sync.ts:208-212: the document list of the workspace is known
SyncDocListFetched ==
    /\ spc = "docList"
    /\ ListingComplete(fpc)
    /\ docList' = allItems
    /\ docIdx' = 1
    /\ spc' = "docLoop"
    /\ fpc' = "idle"
    /\ log' = Append(log, Ev("foundRecs", Len(allItems), 0, 0, NoDoc))
    /\ UNCHANGED <<served, serverCap, fkind, flimit, fpos, allItems, lastResp, fout>>
    /\ UNCHANGED <<targetWs, wsIdx, fetched, sresult, sout>>
    /\ UNCHANGED SyncLocals
    /\ UploadUntouched
    /\ UNCHANGED rvars

\* sync.ts:212-213: next document, getDocument(doc.id) is called
SyncDocumentNext ==
    /\ spc = "docLoop"
    /\ docIdx <= Len(docList)
    /\ spc' = "docFull"
    /\ FetchEnter("single", << docList[docIdx] >>, 0)
    /\ UNCHANGED <<targetWs, wsIdx, docList, docIdx, fetched, sresult, sout, log>>
    /\ UNCHANGED SyncLocals
    /\ UploadUntouched
    /\ UNCHANGED rvars

\* sync.ts:213-214: the full document arrived
SyncDocumentFetched ==
    /\ spc = "docFull"
    /\ ListingComplete(fpc)
    /\ fetched' = fetched \o allItems
    /\ docIdx' = docIdx + 1
    /\ spc' = "docLoop"
    /\ fpc' = "idle"
    /\ UNCHANGED <<served, serverCap, fkind, flimit, fpos, allItems, lastResp, fout>>
    /\ UNCHANGED <<targetWs, wsIdx, docList, sresult, sout, log>>
    /\ UNCHANGED SyncLocals
    /\ UploadUntouched
    /\ UNCHANGED rvars

\* sync.ts:212-216: the documents of the workspace are all fetched
SyncWorkspaceDone ==
    /\ spc = "docLoop"
    /\ ~(docIdx <= Len(docList))
    /\ wsIdx' = wsIdx + 1
    /\ spc' = "wsLoop"
    /\ UNCHANGED <<targetWs, docList, docIdx, fetched, sresult, sout, log>>
    /\ UNCHANGED SyncLocals
    /\ UNCHANGED fvars
    /\ UploadUntouched
    /\ UNCHANGED rvars

\* sync.ts:77-117 (article): filter, short-circuit or transform and call upload
SyncArticlesFetched ==
    /\ spc = "records"
    /\ ListingComplete(fpc)
    /\ fpc' = "idle"
    /\ UNCHANGED <<served, serverCap, fkind, flimit, fpos, allItems, lastResp, fout>>
    /\ fetched' = allItems
    /\ LET withContent == SelectSeq(allItems, HasBlocks)
           skipped == Len(allItems) - Len(withContent)
           mavenDocs == TransformArticles(withContent)
       IN  /\ sresult' = [sresult EXCEPT !.articles = Len(withContent), !.skipped = skipped]
           /\ IF NothingToSync(Len(withContent))
              THEN /\ spc' = "returned"
                   /\ log' = Append(log, Ev("foundRecs", Len(allItems), 0, 0, NoDoc))
                   /\ UploadUntouched
              ELSE /\ spc' = "upload"
                   /\ log' = log \o << Ev("foundRecs", Len(allItems), 0, 0, NoDoc) >>
                                 \o TransformEvents(withContent)
                                 \o << Ev("upload", Len(mavenDocs), 0, 0, NoDoc) >>
                   /\ UploadEnter(mavenDocs)
                   /\ UNCHANGED <<ucfg, uretry>>
    /\ UNCHANGED <<targetWs, wsIdx, docList, docIdx, sout>>
    /\ UNCHANGED SyncLocals
    /\ UNCHANGED rvars

\* sync.ts:218-234 (document): short-circuit or transform and call upload
SyncDocumentsFetched ==
    /\ spc = "wsLoop"
    /\ ~(wsIdx <= Len(targetWs))
    /\ sresult' = [sresult EXCEPT !.articles = Len(fetched)]
    /\ IF NothingToSync(Len(fetched))
       THEN /\ spc' = "returned"
            /\ UNCHANGED log
            /\ UploadUntouched
       ELSE /\ spc' = "upload"
            /\ log' = log \o TransformEvents(fetched)
                          \o << Ev("upload", Len(fetched), 0, 0, NoDoc) >>
            /\ UploadEnter(TransformDocuments(fetched))
            /\ UNCHANGED <<ucfg, uretry>>
    /\ UNCHANGED <<targetWs, wsIdx, docList, docIdx, fetched, sout>>
    /\ UNCHANGED SyncLocals
    /\ UNCHANGED fvars
    /\ UNCHANGED rvars

\* sync.ts:70, 76 / 185, 208, 213: the error of a rejected client call is not
\* caught in syncAll: the caller gets the same object
PropagatedWrapped(err) == [kind |-> "Error", message |-> MessageOf(err), id |-> 0]
Propagated(err) == err

\* sync.ts:70, 76 / 185, 208, 213: an awaited client call rejects; syncAll has
\* no try/catch, the error leaves syncAll as it is
SyncFetchFailed ==
    /\ spc \in {"workspaces", "records", "docList", "docFull"}
    /\ fpc = "threw"
    /\ spc' = "threw"
    /\ sout' = Propagated(fout)
    /\ fpc' = "idle"
    /\ UNCHANGED <<served, serverCap, fkind, flimit, fpos, allItems, lastResp, fout>>
    /\ UNCHANGED <<targetWs, wsIdx, docList, docIdx, fetched, sresult, log>>
    /\ UNCHANGED SyncLocals
    /\ UploadUntouched
    /\ UNCHANGED rvars

\* sync.ts:117-129 / 234-246: the awaited upload() settled; its result is folded
\* into the SyncResult (a rejection would leave syncAll as it is)
SyncUploadSettled ==
    /\ spc = "upload"
    /\ upc \in {"returned", "raised"}
    /\ IF upc = "returned"
       THEN /\ sresult' = [sresult EXCEPT !.uploaded = uout.success,
                                          !.failed = uout.failed,
                                          !.errors = uout.errors]
            /\ spc' = "returned"
            /\ UNCHANGED sout
       ELSE /\ sout' = rout
            /\ spc' = "threw"
            /\ UNCHANGED sresult
    /\ UNCHANGED <<targetWs, wsIdx, docList, docIdx, fetched, log>>
    /\ UNCHANGED SyncLocals
    /\ UNCHANGED fvars
    /\ UploadUntouched
    /\ UNCHANGED rvars

\* run.ts:50-82: syncAll settled, runSync builds its RunResult
RunSyncFinish ==
    /\ spc \in {"returned", "threw"}
    /\ ~run.done
    /\ run' = RunResult(spc = "threw", sout)
    /\ UNCHANGED <<variant, scfg, srcWorkspaces, srcRecords, spc, targetWs, wsIdx,
                   docList, docIdx, fetched, sresult, sout, log>>
    /\ UNCHANGED cvars
    /\ UNCHANGED mvars
    /\ UNCHANGED vvars
    /\ UNCHANGED fvars
    /\ UploadUntouched
    /\ UNCHANGED rvars

SyncIdle ==
    /\ variant = "article"
    /\ scfg = << >>
    /\ srcWorkspaces = << >>
    /\ srcRecords = << >>
    /\ spc = "idle"
    /\ targetWs = << >>
    /\ wsIdx = 0
    /\ docList = << >>
    /\ docIdx = 0
    /\ fetched = << >>
    /\ sresult = EmptySyncResult
    /\ sout = Undefined
    /\ run = NoRun

----------------------------------------------------------------------------
(* withRetry on its own: one call with any configuration *)
UploadIdle ==
    /\ ucfg = << >>
    /\ uretry = << >>
    /\ documents = << >>
    /\ upc = "idle"
    /\ chunks = << >>
    /\ ci = 0
    /\ di = 0
    /\ result = EmptyResult
    /\ uout = EmptyResult

InitRetry ==
    /\ rcfg \in RetryConfigs
    /\ rpc = "loop"
    /\ attempt = 1
    /\ currentDelay = InitialDelayOf(rcfg)
    /\ lastError = Undefined
    /\ rout = Undefined
    /\ log = << >>
    /\ UploadIdle
    /\ FetchIdle
    /\ SyncIdle
    /\ ClientIdle
    /\ MarkdownIdle
    /\ ValidateIdle

\* ---- upload() on its own: one call on any uploader and document list ----
MkDoc(i) == [referenceId |-> i, title |-> <<"title", i>>, content |-> <<"md", i>>,
             metadata |-> <<"docsie", i>>]

ChunkSizesTried == {-1, 0, 1, 2}
UploaderConfigs == Partial({"chunkSize"}, ChunkSizesTried)
UploaderRetryConfigs ==
    { << >>,
      [maxRetries |-> 1],
      [maxRetries |-> 2, initialDelayMs |-> 5, backoffMultiplier |-> 3, maxDelayMs |-> 2],
      [maxRetries |-> 3, initialDelayMs |-> 1, backoffMultiplier |-> 3, maxDelayMs |-> 2],
      [maxRetries |-> 0] }

InitUpload ==
    /\ ucfg \in UploaderConfigs
    /\ uretry \in UploaderRetryConfigs
    /\ \E n \in 0 .. MaxDocs :
         LET docs == [i \in 1 .. n |-> MkDoc(i)] IN
         /\ documents = docs
         /\ result = [EmptyResult EXCEPT !.total = n]
         /\ upc = IF n = 0 THEN "returned" ELSE "chunking"
         /\ uout = [EmptyResult EXCEPT !.total = n]
    /\ chunks = << >>
    /\ ci = 0
    /\ di = 0
    /\ RetryIdle
    /\ FetchIdle
    /\ SyncIdle
    /\ ClientIdle
    /\ MarkdownIdle
    /\ ValidateIdle
    /\ log = << >>

NextUpload ==
    \/ ChunkArrayStep /\ UNCHANGED <<fvars, svars>>
    \/ ChunkArrayGoesOn /\ UNCHANGED <<fvars, svars>>
    \/ ChunkArrayGoesOnBody /\ UNCHANGED <<fvars, svars>>
    \/ ChunkArrayReturn /\ UNCHANGED <<fvars, svars>>
    \/ UploadChunkBegin /\ UNCHANGED <<fvars, svars>>
    \/ UploadDocBegin /\ UNCHANGED <<fvars, svars>>
    \/ upc = "inRetry" /\ RetryAttemptOk /\ UNCHANGED <<uvars, fvars, svars>>
    \/ upc = "inRetry" /\ RetryAttemptFail /\ UNCHANGED <<uvars, fvars, svars>>
    \/ upc = "inRetry" /\ RetrySleep /\ UNCHANGED <<uvars, fvars, svars>>
    \/ upc = "inRetry" /\ RetryThrow /\ UNCHANGED <<uvars, fvars, svars>>
    \/ UploadDocSuccess /\ UNCHANGED <<fvars, svars>>
    \/ UploadDocFailed /\ UNCHANGED <<fvars, svars>>
    \/ UploadChunkEnd /\ UNCHANGED <<fvars, svars>>
    \/ UploadReturn /\ UNCHANGED <<fvars, svars>>

\* ---- one paginated fetch on its own: either idiom, any page size, any server ----
InitPaging ==
    /\ \E n \in 0 .. MaxItems : served = [i \in 1 .. n |-> i]
    /\ serverCap \in 1 .. MaxPageSize
    /\ fkind \in {"page", "offset"}
    /\ flimit \in 0 .. MaxPageSize
    /\ fpc = "request"
    /\ fpos = IF fkind = "page" THEN 1 ELSE 0
    /\ allItems = << >>
    /\ lastResp = NoResponse
    /\ fout = Undefined
    /\ RetryIdle
    /\ UploadIdle
    /\ SyncIdle
    /\ ClientIdle
    /\ MarkdownIdle
    /\ ValidateIdle
    /\ log = << >>

NextPaging ==
    \/ FetchPageResponse /\ UNCHANGED <<rvars, uvars, svars>>
    \/ FetchOffsetResponse /\ UNCHANGED <<rvars, uvars, svars>>
    \/ FetchFail /\ UNCHANGED <<rvars, uvars, svars>>

SpecPaging == InitPaging /\ [][NextPaging]_vars

SpecUpload == InitUpload /\ [][NextUpload]_vars

NextRetry ==
    \/ RetryAttemptOk /\ UNCHANGED <<uvars, fvars, svars>>
    \/ RetryAttemptFail /\ UNCHANGED <<uvars, fvars, svars>>
    \/ RetrySleep /\ UNCHANGED <<uvars, fvars, svars>>
    \/ RetryThrow /\ UNCHANGED <<uvars, fvars, svars>>

SpecRetry == InitRetry /\ [][NextRetry]_vars

\* ---- runSync: one run of syncAll against any source, with upload through ----
\* ---- the uploader runSync builds                                         ----
SyncConfigs == { << >>, [workspaceIds |-> {1}] }
SyncUploaderRetryConfigs == { << >>, [maxRetries |-> 1] }

\* what the source holds when a run starts
SourceHolds ==
    /\ \E w \in 0 .. MaxWorkspaces : srcWorkspaces = [i \in 1 .. w |-> i]
    /\ \E n \in 0 .. MaxRecords : \E b \in [1 .. n -> BodyKinds] :
         srcRecords = [i \in 1 .. n |->
                         MkRecord(i, IF i <= Len(srcWorkspaces) THEN i
                                     ELSE Max(Len(srcWorkspaces), 1), b[i])]

SyncStart ==
    /\ variant \in {"article", "document"}
    /\ scfg \in SyncConfigs
    /\ SourceHolds
    /\ spc = "start"
    /\ targetWs = << >>
    /\ wsIdx = 0
    /\ docList = << >>
    /\ docIdx = 0
    /\ fetched = << >>
    /\ sresult = EmptySyncResult
    /\ sout = Undefined
    /\ run = NoRun
    /\ ucfg = << >>
    /\ uretry \in SyncUploaderRetryConfigs
    /\ documents = << >>
    /\ upc = "idle"
    /\ chunks = << >>
    /\ ci = 0
    /\ di = 0
    /\ result = EmptyResult
    /\ uout = EmptyResult
    /\ RetryIdle
    /\ served = << >>
    /\ serverCap = DefaultPageSize
    /\ fkind = "single"
    /\ flimit = 0
    /\ fpc = "idle"
    /\ fpos = 0
    /\ allItems = << >>
    /\ lastResp = NoResponse
    /\ fout = Undefined
    /\ log = << >>

InitSync ==
    /\ SyncStart
    /\ ClientIdle
    /\ MarkdownIdle
    /\ ValidateIdle

syncLocalVars == <<variant, scfg, spc, targetWs, wsIdx, docList, docIdx, fetched, sresult,
                   sout, run, ckind, ccfg, cpc, cout, jobs, queue, now, nextSlot, blocks, md,
                   val>>

Fetching == spc \in {"workspaces", "records", "docList", "docFull"}
Uploading == spc = "upload"

NextSync ==
    \/ SyncListWorkspaces
    \/ SyncWorkspacesFetched
    \/ SyncWorkspaceNext
    \/ SyncDocListFetched
    \/ SyncDocumentNext
    \/ SyncDocumentFetched
    \/ SyncWorkspaceDone
    \/ SyncArticlesFetched
    \/ SyncDocumentsFetched
    \/ SyncFetchFailed
    \/ SyncUploadSettled
    \/ RunSyncFinish
    \/ Fetching /\ FetchPageResponse /\ SourceAfterRequest /\ UNCHANGED <<rvars, uvars, syncLocalVars>>
    \/ Fetching /\ FetchOffsetResponse /\ SourceAfterRequest /\ UNCHANGED <<rvars, uvars, syncLocalVars>>
    \/ Fetching /\ FetchSingleResponse /\ SourceAfterRequest /\ UNCHANGED <<rvars, uvars, syncLocalVars>>
    \/ Fetching /\ FetchFail /\ UNCHANGED <<rvars, uvars, svars>>
    \/ Uploading /\ ChunkArrayStep /\ UNCHANGED <<fvars, svars>>
    \/ Uploading /\ ChunkArrayReturn /\ UNCHANGED <<fvars, svars>>
    \/ Uploading /\ UploadChunkBegin /\ UNCHANGED <<fvars, svars>>
    \/ Uploading /\ UploadDocBegin /\ UNCHANGED <<fvars, svars>>
    \/ Uploading /\ upc = "inRetry" /\ RetryAttemptOk /\ UNCHANGED <<uvars, fvars, svars>>
    \/ Uploading /\ upc = "inRetry" /\ RetryAttemptFail /\ UNCHANGED <<uvars, fvars, svars>>
    \/ Uploading /\ upc = "inRetry" /\ RetrySleep /\ UNCHANGED <<uvars, fvars, svars>>
    \/ Uploading /\ upc = "inRetry" /\ RetryThrow /\ UNCHANGED <<uvars, fvars, svars>>
    \/ Uploading /\ UploadDocSuccess /\ UNCHANGED <<fvars, svars>>
    \/ Uploading /\ UploadDocFailed /\ UNCHANGED <<fvars, svars>>
    \/ Uploading /\ UploadChunkEnd /\ UNCHANGED <<fvars, svars>>
    \/ Uploading /\ UploadReturn /\ UNCHANGED <<fvars, svars>>

SpecSync == InitSync /\ [][NextSync]_vars

\* ---- runSync run again and again against an unchanged source, with a      ----
\* ---- source that answers every request and a destination whose            ----
\* ---- create-document call always succeeds                                 ----
NumRuns == 1 + Cardinality({i \in 1 .. Len(log) : log[i].e = "rerun"})

\* run.ts:28-50: a further run of runSync: new clients, a new uploader and a new
\* DocsieSync are built, nothing is carried over from the run before
RunSyncAgain ==
    /\ run.done
    /\ NumRuns < MaxRuns
    /\ log' = Append(log, Ev("rerun", NumRuns, 0, 0, NoDoc))
    /\ spc' = "start"
    /\ targetWs' = << >>
    /\ wsIdx' = 0
    /\ docList' = << >>
    /\ docIdx' = 0
    /\ fetched' = << >>
    /\ sresult' = EmptySyncResult
    /\ sout' = Undefined
    /\ run' = NoRun
    /\ documents' = << >>
    /\ upc' = "idle"
    /\ chunks' = << >>
    /\ ci' = 0
    /\ di' = 0
    /\ result' = EmptyResult
    /\ uout' = EmptyResult
    /\ rcfg' = << >>
    /\ rpc' = "idle"
    /\ attempt' = 0
    /\ currentDelay' = 0
    /\ lastError' = Undefined
    /\ rout' = Undefined
    /\ served' = << >>
    /\ fkind' = "single"
    /\ flimit' = 0
    /\ fpc' = "idle"
    /\ fpos' = 0
    /\ allItems' = << >>
    /\ lastResp' = NoResponse
    /\ fout' = Undefined
    /\ UNCHANGED <<variant, scfg, srcWorkspaces, srcRecords, ucfg, uretry, serverCap>>
    /\ UNCHANGED cvars
    /\ UNCHANGED mvars
    /\ UNCHANGED vvars

NextRerun ==
    \/ SyncListWorkspaces
    \/ SyncWorkspacesFetched
    \/ SyncWorkspaceNext
    \/ SyncDocListFetched
    \/ SyncDocumentNext
    \/ SyncDocumentFetched
    \/ SyncWorkspaceDone
    \/ SyncArticlesFetched
    \/ SyncDocumentsFetched
    \/ SyncUploadSettled
    \/ RunSyncFinish
    \/ RunSyncAgain
    \/ Fetching /\ FetchPageResponse /\ SourceAfterRequest /\ UNCHANGED <<rvars, uvars, syncLocalVars>>
    \/ Fetching /\ FetchOffsetResponse /\ SourceAfterRequest /\ UNCHANGED <<rvars, uvars, syncLocalVars>>
    \/ Fetching /\ FetchSingleResponse /\ SourceAfterRequest /\ UNCHANGED <<rvars, uvars, syncLocalVars>>
    \/ Uploading /\ ChunkArrayStep /\ UNCHANGED <<fvars, svars>>
    \/ Uploading /\ ChunkArrayReturn /\ UNCHANGED <<fvars, svars>>
    \/ Uploading /\ UploadChunkBegin /\ UNCHANGED <<fvars, svars>>
    \/ Uploading /\ UploadDocBegin /\ UNCHANGED <<fvars, svars>>
    \/ Uploading /\ upc = "inRetry" /\ RetryAttemptOk /\ UNCHANGED <<uvars, fvars, svars>>
    \/ Uploading /\ UploadDocSuccess /\ UNCHANGED <<fvars, svars>>
    \/ Uploading /\ UploadChunkEnd /\ UNCHANGED <<fvars, svars>>
    \/ Uploading /\ UploadReturn /\ UNCHANGED <<fvars, svars>>

SpecRerun == InitSync /\ [][NextRerun]_vars

----------------------------------------------------------------------------
(* Reading the log *)
IsCall(ev) == ev.e \in {"ok", "fail"}
IsCallOrSleep(ev) == ev.e \in {"ok", "fail", "sleep"}
IsSleep(ev) == ev.e = "sleep"
IsFail(ev) == ev.e = "fail"
CallLog == SelectSeq(log, IsCall)
CallSleepLog == SelectSeq(log, IsCallOrSleep)
SleepLog == SelectSeq(log, IsSleep)
NumCalls == Len(CallLog)
NumFails == Len(SelectSeq(log, IsFail))
NumSleeps == Len(SleepLog)
ThrownById(i) == CHOOSE v \in ThrownValues : v.id = i
ResultById(i) == CHOOSE v \in ResultValues : v.id = i
RetryDone == rpc \in {"returned", "threw"}

\* create calls made for the document with referenceId r
CallsFor(r) == {i \in 1 .. Len(log) : IsCall(log[i]) /\ log[i].d.referenceId = r}
FailedCallsFor(r) == {i \in CallsFor(r) : log[i].e = "fail"}
DocIds == {documents[i].referenceId : i \in 1 .. Len(documents)}
DocsWithFailedCall == {r \in DocIds : FailedCallsFor(r) # {}}
\* r's create call failed on every one of the maxRetries attempts
PermanentlyFailed(r) ==
    /\ FailedCallsFor(r) = CallsFor(r)
    /\ Cardinality(CallsFor(r)) = UploadRetryConfig(uretry)["maxRetries"]
    /\ CallsFor(r) # {}

----------------------------------------------------------------------------
\* C1: when exactly one document of the list fails permanently (all maxRetries
\* create calls fail) and every other create call succeeds, upload returns
\* success = K - 1 and failed = 1 and every one of the K documents received a
\* create call, wherever the failing document sits and whatever the chunk size.
C1_PartialFailureIsolation ==
    ( /\ upc = "returned"
      /\ \E r \in DocIds : DocsWithFailedCall = {r} /\ PermanentlyFailed(r) )
    => /\ uout.success = Len(documents) - 1
       /\ uout.failed = 1
       /\ uout.total = Len(documents)
       /\ \A r \in DocIds : CallsFor(r) # {}

C1_Witness ==
    /\ upc = "returned"
    /\ Len(documents) = 3
    /\ ChunkSizeOf(ucfg) = 1
    /\ DocsWithFailedCall = {2}
    /\ PermanentlyFailed(2)
    /\ Cardinality(CallsFor(2)) = 3
    /\ CallsFor(3) # {}
    /\ uout.success = 2
    /\ uout.failed = 1

----------------------------------------------------------------------------
\* the requests of the fetch, in order
IsRequest(ev) == ev.e \in {"getpage", "getoffset", "get", "getfail"}
RequestLog == SelectSeq(log, IsRequest)
CeilDiv(n, p) == (n + p - 1) \div p
\* the server serves what was asked for (no smaller server-side page size)
Uncapped == serverCap >= flimit

\* C2: page-number idiom, P >= 1, server serving page k as items (k-1)P+1..kP:
\* fetchAllWithPagination returns exactly the N items in server order; request
\* i asks page i with per_page P and carries min(P, N-(i-1)P) items; there are
\* ceil(N/P) requests when P does not divide N and N/P + 1 when it does.
C2_PageNumberCompleteness ==
    (fkind = "page" /\ fpc = "done" /\ flimit >= 1 /\ Uncapped)
    => LET N == Len(served)
           P == flimit
       IN  /\ allItems = served
           /\ Len(RequestLog) = IF N % P = 0 THEN (N \div P) + 1 ELSE CeilDiv(N, P)
           /\ \A i \in 1 .. Len(RequestLog) :
                 /\ RequestLog[i].e = "getpage"
                 /\ RequestLog[i].n = i
                 /\ RequestLog[i].m = P
                 /\ RequestLog[i].k = Max(0, Min(P, N - (i - 1) * P))

C2_Witness ==
    /\ fkind = "page"
    /\ fpc = "done"
    /\ Len(served) = 5
    /\ flimit = 2
    /\ Uncapped
    /\ Len(RequestLog) = 3
    /\ RequestLog[1].k = 2
    /\ RequestLog[2].k = 2
    /\ RequestLog[3].k = 1
    /\ allItems = served

\* C3: offset+limit idiom, P >= 1, server answering (limit P, offset o) with
\* items o+1..min(o+P,N) and next non-null exactly when o+P < N:
\* fetchAllPaginated returns exactly the N items in server order, request i
\* asks offset (i-1)P with limit P, and there are max(1, ceil(N/P)) requests
\* (no extra request when P divides N).
C3_OffsetCompleteness ==
    (fkind = "offset" /\ fpc = "done" /\ flimit >= 1 /\ Uncapped)
    => LET N == Len(served)
           P == flimit
       IN  /\ allItems = served
           /\ Len(RequestLog) = Max(1, CeilDiv(N, P))
           /\ \A i \in 1 .. Len(RequestLog) :
                 /\ RequestLog[i].e = "getoffset"
                 /\ RequestLog[i].n = (i - 1) * P
                 /\ RequestLog[i].m = P

C3_Witness ==
    /\ fkind = "offset"
    /\ fpc = "done"
    /\ Len(served) = 4
    /\ flimit = 2
    /\ Uncapped
    /\ Len(RequestLog) = 2
    /\ allItems = served

\* C4: fetchAllPaginated decides termination from the next indicator alone:
\* after a response without next it stops; after a response with next it goes
\* on to a further request at offset + limit, however many results came.
C4_TerminationByNextOnly ==
    ( /\ fkind = "offset"
      /\ log # << >>
      /\ log[Len(log)].e = "getoffset" )
    => /\ ~lastResp.next => fpc = "done"
       /\ lastResp.next => (fpc = "request" /\ fpos = log[Len(log)].n + flimit)

----------------------------------------------------------------------------
FetchErrorById(i) == CHOOSE v \in FetchErrors : v.id = i
FailedRequests == {i \in 1 .. Len(log) : log[i].e = "getfail"}
UploadInvoked == \E i \in 1 .. Len(log) : log[i].e = "upload"
\* documents of the upload whose create call never succeeded
DocsNeverCreated == {r \in DocIds : \A i \in CallsFor(r) : log[i].e = "fail"}
ErrorDocIds == {result.errors[i].docId : i \in 1 .. Len(result.errors)}

\* C9: once a request of the fetch phase has failed (workspace listing, any
\* page of the record listing, a full-content fetch), no further request is
\* made, syncAll fails with that very error, it never returns a SyncResult,
\* and no create-document call is ever issued (upload is not even invoked).
C9_FetchErrorAbortsRun ==
    FailedRequests # {}
    => /\ FailedRequests = {Len(log)}
       /\ spc = "threw" \/ (Fetching /\ fpc = "threw")
       /\ spc = "threw" => sout = FetchErrorById(log[Len(log)].n)
       /\ NumCalls = 0
       /\ ~UploadInvoked
       /\ upc = "idle"

C9_Witness ==
    /\ spc = "threw"
    /\ FailedRequests # {}
    /\ Len(RequestLog) >= 3
    /\ sout \in FetchErrors
    /\ Len(srcRecords) >= 1

\* C10: failures of create-document calls are never raised: upload never
\* rejects, on return failed counts exactly the documents whose create call
\* never succeeded and errors lists exactly those; syncAll then returns with
\* these counts, and runSync reports success = true with exit code 0 - also
\* when every document failed.  A run that reached the upload always ends so.
C10_UploadFailuresNotRaised ==
    /\ upc # "raised"
    /\ upc = "returned" /\ UploadInvoked
         => /\ uout.failed = Cardinality(DocsNeverCreated)
            /\ uout.success = Len(documents) - uout.failed
            /\ Len(uout.errors) = uout.failed
            /\ ErrorDocIds = DocsNeverCreated
    /\ UploadInvoked => spc \in {"upload", "returned"}
    /\ spc = "returned" /\ UploadInvoked
         => sresult.failed = uout.failed /\ sresult.errors = uout.errors
    /\ run.done /\ UploadInvoked => (run.success /\ run.exitCode = 0)
    /\ (UploadInvoked /\ ~ENABLED NextSync) => run.done

C10_Witness ==
    /\ run.done
    /\ run.success
    /\ run.exitCode = 0
    /\ Len(documents) = 2
    /\ sresult.failed = 2
    /\ sresult.uploaded = 0
    /\ Len(sresult.errors) = 2

----------------------------------------------------------------------------
\* C5: withRetry calls the operation at most maxRetries times, makes no call
\* after the first call that succeeds and returns that call's result; with at
\* least 3 attempts allowed, two failures followed by a success make exactly
\* 3 calls and the third call's result is returned.
C5_AtMostMaxAttempts ==
    /\ NumCalls <= Max(MaxRetriesOf(rcfg), 0)
    /\ \A i \in 1 .. Len(log) : log[i].e = "ok" => i = Len(log)
    /\ rpc = "returned" <=> (log # << >> /\ log[Len(log)].e = "ok")
    /\ rpc = "returned" => rout = ResultById(log[Len(log)].n)
    /\ ( /\ RetryDone
         /\ MaxRetriesOf(rcfg) >= 3
         /\ NumCalls >= 2
         /\ CallLog[1].e = "fail"
         /\ CallLog[2].e = "fail" )
       => /\ NumCalls >= 3
          /\ CallLog[3].e = "ok" => (NumCalls = 3 /\ rout = ResultById(CallLog[3].n))

C5_Witness ==
    /\ rpc = "returned"
    /\ NumCalls = 3
    /\ CallLog[1].e = "fail"
    /\ CallLog[2].e = "fail"
    /\ CallLog[3].e = "ok"

\* C6 as stated: when every one of the maxRetries attempts fails, withRetry
\* throws the very value raised by the last attempt (same object).
C6_ThrowsLastRaisedValue ==
    (rpc = "threw" /\ MaxRetriesOf(rcfg) >= 1)
        => rout = ThrownById(CallLog[NumCalls].n)

\* C6 amended: when every one of the maxRetries attempts fails, withRetry
\* throws the value raised by the last attempt if that value is an Error
\* object; a non-Error value is replaced by a new Error whose message is the
\* string form of that value.  Never the value of an earlier attempt.
C6_ThrowsLastErrorOrWrapped ==
    (rpc = "threw" /\ MaxRetriesOf(rcfg) >= 1)
        => /\ NumCalls = MaxRetriesOf(rcfg)
           /\ \A i \in 1 .. NumCalls : CallLog[i].e = "fail"
           /\ LET last == ThrownById(CallLog[NumCalls].n) IN
                IF last.kind = "Error"
                THEN rout = last
                ELSE rout = [kind |-> "Error", message |-> MessageOf(last), id |-> 0]

C6_Witness ==
    /\ rpc = "threw"
    /\ NumCalls = 3
    /\ CallLog[1].n # CallLog[3].n
    /\ CallLog[2].n # CallLog[3].n
    /\ rout = ThrownById(CallLog[3].n)

\* C7: withRetry sleeps exactly once between two consecutive attempts, never
\* after a successful attempt and never after the last attempt: calls and
\* sleeps alternate, every sleep follows a failed call and is followed by the
\* next call; f failures then a success give f sleeps, exhaustion gives
\* maxRetries - 1 sleeps.
C7_WaitsBetweenAttempts ==
    /\ \A i \in 1 .. Len(CallSleepLog) :
          IF i % 2 = 1 THEN IsCall(CallSleepLog[i])
          ELSE IsSleep(CallSleepLog[i]) /\ CallSleepLog[i - 1].e = "fail"
    /\ RetryDone => (CallSleepLog = << >> \/ IsCall(CallSleepLog[Len(CallSleepLog)]))
    /\ rpc = "returned" => NumSleeps = NumFails
    /\ (rpc = "threw" /\ MaxRetriesOf(rcfg) >= 1) => NumSleeps = MaxRetriesOf(rcfg) - 1

C7_Witness ==
    /\ rpc = "threw"
    /\ MaxRetriesOf(rcfg) = 3
    /\ NumSleeps = 2

\* C8 as stated: no sleep of withRetry is longer than maxDelayMs, and every
\* sleep after the first lasts min(previous sleep * backoffMultiplier, maxDelayMs).
C8_WaitsCappedByMaxDelay ==
    /\ \A i \in 1 .. NumSleeps : SleepLog[i].n <= MaxDelayOf(rcfg)
    /\ \A i \in 2 .. NumSleeps :
          SleepLog[i].n = Min(SleepLog[i - 1].n * MultiplierOf(rcfg), MaxDelayOf(rcfg))

\* ---- one DocsieClient: it is constructed from any configuration, then ----
\* ---- several callers call get concurrently, each several times        ----
dvars == <<variant, scfg, srcWorkspaces, srcRecords, spc, targetWs, wsIdx, docList,
           docIdx, fetched, sresult, sout, run>>

InitClient ==
    /\ ckind \in {"content", "client"}
    /\ ccfg \in ClientConfigs
    /\ cpc = "new"
    /\ cout = Undefined
    /\ jobs = [c \in Callers |-> IdleJob]
    /\ queue = << >>
    /\ now = 0
    /\ nextSlot = 0
    /\ RetryIdle
    /\ UploadIdle
    /\ FetchIdle
    /\ SyncIdle
    /\ MarkdownIdle
    /\ ValidateIdle
    /\ log = << >>

NextClient ==
    \/ ClientConstruct /\ UNCHANGED <<rvars, uvars, fvars, dvars, mvars, vvars>>
    \/ \E c \in Callers :
          CallGet(c, EndpointFor(c)) /\ UNCHANGED <<rvars, uvars, fvars, dvars, mvars, vvars>>
    \/ LimiterLaunch /\ UNCHANGED <<rvars, uvars, fvars, dvars, mvars, vvars>>
    \/ \E c \in Callers : FetchSettles(c) /\ UNCHANGED <<rvars, uvars, fvars, dvars, mvars, vvars>>
    \/ ClockAdvance /\ UNCHANGED <<rvars, uvars, fvars, dvars, mvars, vvars>>

SpecClient == InitClient /\ [][NextClient]_vars

\* ---- docToMarkdown on its own: one call on any list of blocks ----
BlockLists == UNION { [1 .. n -> BlockKinds] : n \in 0 .. MaxBlocks }

InitMarkdown ==
    /\ blocks \in BlockLists
    /\ md = [NoMarkdown EXCEPT !.pc = "enter"]
    /\ RetryIdle
    /\ UploadIdle
    /\ FetchIdle
    /\ SyncIdle
    /\ ClientIdle
    /\ ValidateIdle
    /\ log = << >>

NextMarkdown ==
    \/ MarkdownEnter /\ UNCHANGED <<rvars, uvars, fvars, dvars, cvars, vvars, log>>
    \/ MarkdownBlock /\ UNCHANGED <<rvars, uvars, fvars, dvars, cvars, vvars, log>>
    \/ MarkdownReturn /\ UNCHANGED <<rvars, uvars, fvars, dvars, cvars, vvars, log>>

SpecMarkdown == InitMarkdown /\ [][NextMarkdown]_vars

\* ---- the CLI runner: one run of runSync or of runValidate, with any ----
\* ---- configuration of the source client                            ----
syncAllLocals == <<variant, scfg, spc, targetWs, wsIdx, docList, docIdx, fetched, sresult,
                   sout>>
syncAllVars == <<syncAllLocals, srcWorkspaces, srcRecords>>
RunClientConfigs == Partial({"apiKey"}, ApiKeysTried)

\* run.ts:32-49: runSync builds its DocsieClient inside the try block; a
\* constructor that throws takes it to the catch block (72-81)
RunSyncConstruct ==
    /\ val.mode = "sync"
    /\ val.pc = "start"
    /\ ClientConstruct
    /\ val' = [val EXCEPT !.pc = IF cpc' = "ready" THEN "syncing" ELSE "threw"]
    /\ run' = IF cpc' = "threw" THEN RunResult(TRUE, cout') ELSE run

Syncing == val.mode = "sync" /\ val.pc = "syncing"

InitRun ==
    /\ ckind = "client"
    /\ ccfg \in RunClientConfigs
    /\ cpc = "new"
    /\ cout = Undefined
    /\ jobs = << >>
    /\ queue = << >>
    /\ now = 0
    /\ nextSlot = 0
    /\ MarkdownIdle
    /\ \/ /\ SyncStart
          /\ val = [NoValidation EXCEPT !.mode = "sync", !.pc = "start"]
       \/ /\ RetryIdle
          /\ UploadIdle
          /\ FetchIdle
          /\ variant = "article"
          /\ scfg = << >>
          /\ SourceHolds
          /\ spc = "idle"
          /\ targetWs = << >>
          /\ wsIdx = 0
          /\ docList = << >>
          /\ docIdx = 0
          /\ fetched = << >>
          /\ sresult = EmptySyncResult
          /\ sout = Undefined
          /\ run = NoRun
          /\ log = << >>
          /\ val = [NoValidation EXCEPT !.mode = "validate", !.pc = "start"]

NextRun ==
    \/ RunSyncConstruct /\ UNCHANGED <<rvars, uvars, fvars, syncAllVars, mvars>>
    \/ Syncing /\ NextSync
    \/ RunValidateConstruct /\ UNCHANGED <<rvars, uvars, fvars, syncAllVars, mvars>>
    \/ ValidateDocsie /\ UNCHANGED <<rvars, uvars, fvars, syncAllLocals, mvars>>
    \/ ValidateMaven /\ UNCHANGED <<rvars, uvars, fvars, syncAllVars, mvars>>
    \/ ValidationReturn /\ UNCHANGED <<rvars, uvars, fvars, syncAllVars, mvars>>
    \/ ValidationThrows /\ UNCHANGED <<rvars, uvars, fvars, syncAllVars, mvars>>
    \/ RunValidateFinish /\ UNCHANGED <<rvars, uvars, fvars, syncAllVars, mvars>>

SpecRun == InitRun /\ [][NextRun]_vars

----------------------------------------------------------------------------
(* Reading a sync run *)
\* the records syncAll keeps for the upload: articlesWithContent (sync.ts:80-94,
\* article connector) or allFullDocs (sync.ts:202-216, document connector)
Kept == IF variant = "article" THEN SelectSeq(fetched, HasBlocks) ELSE fetched
KeptIds == {Kept[i].id : i \in 1 .. Len(Kept)}

\* a record with no extractable content: an article without doc or with an
\* absent or empty block list, a document whose content is the empty string
NoContent(r) == IF variant = "article" THEN ~HasBlocks(r) ELSE ConvertBody(r) = << >>
FetchedNoContent == {i \in 1 .. Len(fetched) : NoContent(fetched[i])}
FetchedWithContentIds == {fetched[i].id : i \in (1 .. Len(fetched)) \ FetchedNoContent}

TransformedIds == {log[i].n : i \in {j \in 1 .. Len(log) : log[j].e = "transform"}}
CreateCalls == {i \in 1 .. Len(log) : IsCall(log[i])}
CreatedIds == {log[i].d.referenceId : i \in CreateCalls}

\* C11 as stated: every fetched record with no extractable content is counted
\* in skipped, is never transformed, is never handed to the uploader (no
\* create call carries its id), and is not counted in uploaded or failed.
C11_EmptyRecordsSkipped ==
    /\ \A i \in FetchedNoContent :
          /\ fetched[i].id \notin TransformedIds
          /\ fetched[i].id \notin CreatedIds
          /\ fetched[i].id \notin DocIds
    /\ spc = "returned"
         => /\ sresult.skipped = Cardinality(FetchedNoContent)
            /\ sresult.uploaded + sresult.failed
                 <= Len(fetched) - Cardinality(FetchedNoContent)

\* C12: when syncAll keeps no record for the upload (nothing fetched, or every
\* fetched record skipped), it returns with uploaded = 0, failed = 0 and no
\* errors, and upload is never invoked: no create call, the uploader untouched.
\* Conversely upload is only ever invoked with at least one record.
C12_ShortCircuit ==
    /\ (spc = "returned" /\ Len(Kept) = 0)
         => /\ sresult.uploaded = 0
            /\ sresult.failed = 0
            /\ sresult.errors = << >>
            /\ sresult.articles = 0
            /\ ~UploadInvoked
            /\ NumCalls = 0
            /\ upc = "idle"
    /\ UploadInvoked => (Len(Kept) > 0 /\ Len(documents) = Len(Kept))

C12_Witness ==
    /\ spc = "returned"
    /\ Len(fetched) = 2
    /\ Len(Kept) = 0
    /\ sresult.skipped = 2
    /\ sresult.uploaded = 0
    /\ ~UploadInvoked
    /\ run.done

\* C13 as stated: every create-document call issued in a run of syncAll
\* carries a content that is not the empty string.
C13_NoEmptyContentUploaded ==
    \A i \in CreateCalls : log[i].d.content # << >>

\* C14 as stated: the document transformToMavenFormat yields for a record has
\* the record's title as content when the record's content converts to the
\* empty string, and the converted Markdown otherwise.
C14_ContentFallback ==
    (spc \in {"upload", "returned"} /\ Len(documents) = Len(Kept))
    => \A i \in 1 .. Len(documents) :
          documents[i].content = IF ConvertBody(Kept[i]) = << >>
                                 THEN Kept[i].name
                                 ELSE ConvertBody(Kept[i])

\* C15 as stated: the referenceId of every create call is the id of a fetched
\* record that has content, and once syncAll has returned every fetched
\* record with content has its id in at least one create call.
C15_KeysOfRecordsWithContent ==
    /\ CreatedIds \subseteq FetchedWithContentIds
    /\ spc = "returned" => FetchedWithContentIds \subseteq CreatedIds

\* Key stability for the records kept: the documents handed to upload are,
\* in order, the records syncAll kept (article connector: those with a non-empty block list;
\* document connector: every fetched record, with or without content), each
\* with the record's id as referenceId; every create call carries one of
\* these documents unchanged; and once syncAll has returned every kept record
\* has its id in at least one create call.
C15_KeysOfKeptRecords ==
    /\ UploadInvoked
         => /\ Len(documents) = Len(Kept)
            /\ \A j \in 1 .. Len(Kept) :
                  /\ documents[j].referenceId = Kept[j].id
                  /\ documents[j].title = Kept[j].name
    /\ \A i \in CreateCalls :
          \E j \in 1 .. Len(documents) : log[i].d = documents[j]
    /\ CreatedIds \subseteq KeptIds
    /\ spc = "returned" => KeptIds \subseteq CreatedIds

C15_Witness ==
    /\ spc = "returned"
    /\ variant = "document"
    /\ Len(Kept) = 2
    /\ Cardinality(FetchedNoContent) = 1
    /\ CreatedIds = {1, 2}
    /\ sresult.uploaded = 2

----------------------------------------------------------------------------
(* The destination as a store: a create-document call that succeeds upserts *)
(* its document under the referenceId                                       *)
OkCalls(n) == {i \in 1 .. n : log[i].e = "ok"}
StoredIds(n) == {log[i].d.referenceId : i \in OkCalls(n)}
LastOkFor(r, n) == CHOOSE i \in OkCalls(n) :
                      /\ log[i].d.referenceId = r
                      /\ \A j \in OkCalls(n) : log[j].d.referenceId = r => j <= i
\* the store after the first n events
Store(n) == [r \in StoredIds(n) |-> log[LastOkFor(r, n)].d]
RerunMarks == {i \in 1 .. Len(log) : log[i].e = "rerun"}
\* the end of the first run
FirstRunEnd == IF RerunMarks = {} THEN Len(log)
               ELSE CHOOSE i \in RerunMarks : \A j \in RerunMarks : i <= j

\* C16 as stated: after every completed run the destination is what it was
\* after the first run, and it holds exactly one document per fetched source
\* id with content.
C16_OneDocumentPerRecordWithContent ==
    run.done
    => /\ Store(Len(log)) = Store(FirstRunEnd)
       /\ DOMAIN Store(Len(log)) = FetchedWithContentIds

\* Re-run idempotence for the records kept: after every completed run the
\* destination is what it was after the first run: exactly one document per record syncAll kept (article
\* connector: non-empty block list; document connector: every fetched
\* record, with or without content), with the record's id, its title, and the
\* content and metadata the transform gives it.
C16_RerunIdempotent ==
    /\ \A i \in RerunMarks : Store(i) = Store(FirstRunEnd)
    /\ run.done
         => /\ Store(Len(log)) = Store(FirstRunEnd)
            /\ DOMAIN Store(Len(log)) = KeptIds
            /\ \A j \in 1 .. Len(Kept) :
                  LET d == Store(Len(log))[Kept[j].id] IN
                  /\ d.referenceId = Kept[j].id
                  /\ d.title = Kept[j].name
                  /\ d.content = documents[j].content
                  /\ d.metadata[2] = Kept[j].id
                  /\ d.metadata = documents[j].metadata

C16_Witness ==
    /\ run.done
    /\ NumRuns = 2
    /\ Len(Kept) = 2
    /\ Cardinality(OkCalls(Len(log))) = 4
    /\ Cardinality(DOMAIN Store(Len(log))) = 2
    /\ Store(Len(log)) = Store(FirstRunEnd)

----------------------------------------------------------------------------
\* every source record lies where the run looks: the article connector lists
\* all articles, the document connector the documents of the target workspaces
TargetSet == {TargetWorkspaces(scfg, srcWorkspaces)[k] :
                 k \in 1 .. Len(TargetWorkspaces(scfg, srcWorkspaces))}
AllInScope == variant = "article" \/ \A i \in 1 .. Len(srcRecords) : srcRecords[i].ws \in TargetSet
AllHaveContent == \A i \in 1 .. Len(srcRecords) : srcRecords[i].body = "text"
NoFailedCreate == \A i \in CreateCalls : log[i].e = "ok"
RecordRequests == {i \in 1 .. Len(log) : log[i].e \in {"getoffset", "getpage"} /\ log[i].k > 0}

\* C17: N source records that all have non-empty content, fetched page by
\* page, and a destination whose create call always succeeds: syncAll returns
\* articles / totalDocuments = N, uploaded = N, failed = 0, skipped = 0 and
\* no errors, and exactly N create calls were issued, one per record.
C17_EndToEndSuccess ==
    (spc = "returned" /\ AllInScope /\ AllHaveContent /\ NoFailedCreate)
    => LET N == Len(srcRecords) IN
       /\ sresult.articles = N
       /\ sresult.uploaded = N
       /\ sresult.failed = 0
       /\ sresult.skipped = 0
       /\ sresult.errors = << >>
       /\ Cardinality(CreateCalls) = N
       /\ CreatedIds = {srcRecords[i].id : i \in 1 .. N}

C17_Witness ==
    /\ spc = "returned"
    /\ variant = "article"
    /\ Len(srcRecords) = 2
    /\ AllHaveContent
    /\ NoFailedCreate
    /\ flimit < Len(srcRecords)
    /\ Cardinality(RecordRequests) >= 3
    /\ sresult.articles = 2
    /\ sresult.uploaded = 2
    /\ Cardinality(CreateCalls) = 2

----------------------------------------------------------------------------
(* Reading an upload *)
OkEvents(n) == {i \in 1 .. n : log[i].e = "ok"}
ErrorEvents(n) == {i \in 1 .. n : log[i].e = "error"}
ChunkDoneEvents == {i \in 1 .. Len(log) : log[i].e = "chunkdone"}
ChunkBeginEvents == {i \in 1 .. Len(log) : log[i].e = "chunk"}
\* the withRetry call of the current document has resolved, line 99 not yet run
SuccessPending == IF upc = "inRetry" /\ rpc = "returned" THEN 1 ELSE 0
Chunked == upc \notin {"idle", "chunking", "chunkingOn"} /\ Len(documents) > 0

\* C18: throughout upload, success is the number of documents whose create
\* call succeeded, failed the number of documents given up, errors has one
\* entry per failed document; the completion summary of batch k reports the
\* cumulative counts, with success + failed = min(k * s, N); on return
\* total = N = success + failed.
C18_UploadAccounting ==
    /\ result.success = Cardinality(OkEvents(Len(log))) - SuccessPending
    /\ result.failed = Cardinality(ErrorEvents(Len(log)))
    /\ Len(result.errors) = result.failed
    /\ \A j \in 1 .. Len(result.errors) :
          result.errors[j].docId = log[CHOOSE i \in ErrorEvents(Len(log)) :
                                          Cardinality(ErrorEvents(i)) = j].d.referenceId
    /\ result.total = Len(documents)
    /\ result.success + result.failed <= Len(documents)
    /\ \A i \in ChunkDoneEvents :
          /\ log[i].m = Cardinality(OkEvents(i))
          /\ log[i].k = Cardinality(ErrorEvents(i))
          /\ ChunkSizeOf(ucfg) >= 1
               => log[i].m + log[i].k = Min(log[i].n * ChunkSizeOf(ucfg), Len(documents))
    /\ upc = "returned"
         => /\ uout = result
            /\ uout.total = Len(documents)
            /\ uout.success + uout.failed = Len(documents)

C18_Witness ==
    /\ upc = "returned"
    /\ Len(documents) = 3
    /\ ChunkSizeOf(ucfg) = 2
    /\ uout.success = 2
    /\ uout.failed = 1
    /\ \E i, j \in ChunkDoneEvents :
          /\ log[i].n = 1 /\ log[i].m = 1 /\ log[i].k = 1
          /\ log[j].n = 2 /\ log[j].m = 2 /\ log[j].k = 1

RECURSIVE Flatten(_)
Flatten(seqs) == IF seqs = << >> THEN << >> ELSE Head(seqs) \o Flatten(Tail(seqs))

\* C19: N >= 1 documents and batch size s >= 1 (default 50): chunkArray gives
\* ceil(N/s) batches, every batch but the last of exactly s documents, the
\* last of N - s * (ceil(N/s) - 1), and their concatenation is the input; the
\* progress line of batch k reports k, the number of batches and its size.
\* N = 0: no batch, no create call, the result is all zeros without errors.
C19_Batching ==
    /\ (Chunked /\ ChunkSizeOf(ucfg) >= 1)
         => LET N == Len(documents)
                sz == ChunkSizeOf(ucfg)
                B == CeilDiv(N, sz)
            IN  /\ Len(chunks) = B
                /\ \A k \in 1 .. B - 1 : Len(chunks[k]) = sz
                /\ Len(chunks[B]) = N - sz * (B - 1)
                /\ Flatten(chunks) = documents
                /\ \A i \in ChunkBeginEvents :
                      /\ log[i].m = B
                      /\ log[i].k = Len(chunks[log[i].n])
    /\ (upc # "idle" /\ Len(documents) = 0)
         => /\ upc = "returned"
            /\ chunks = << >>
            /\ log = << >>
            /\ uout = [total |-> 0, success |-> 0, failed |-> 0, errors |-> << >>]

C19_Witness ==
    /\ upc = "returned"
    /\ Len(documents) = 3
    /\ ChunkSizeOf(ucfg) = 2
    /\ Len(chunks) = 2
    /\ Len(chunks[1]) = 2
    /\ Len(chunks[2]) = 1
    /\ Cardinality(ChunkBeginEvents) = 2

\* the batch a document belongs to
ChunkOfDoc(r) == CHOOSE k \in 1 .. Len(chunks) :
                    \E j \in 1 .. Len(chunks[k]) : chunks[k][j].referenceId = r
\* the document with referenceId r has reached its final outcome within the
\* first n events: a create call succeeded, or upload gave it up
SettledBy(r, n) == \E j \in 1 .. n : /\ log[j].e \in {"ok", "error"}
                                     /\ log[j].d.referenceId = r

\* C20: batches run one after the other: when a create call is issued for a
\* document of batch k, every document of every earlier batch has reached its
\* final outcome; the progress line of batch k precedes all its create calls,
\* its completion summary follows them all, and the progress line of batch
\* k + 1 comes after the completion summary of batch k.
C20_BatchesSequential ==
    (Chunked /\ ChunkSizeOf(ucfg) >= 1)
    => /\ \A i \in CreateCalls :
             LET k == ChunkOfDoc(log[i].d.referenceId) IN
             /\ \E b \in ChunkBeginEvents : b < i /\ log[b].n = k
             /\ \A e \in ChunkDoneEvents : log[e].n = k => i < e
             /\ \A kk \in 1 .. k - 1 : \A j \in 1 .. Len(chunks[kk]) :
                   SettledBy(chunks[kk][j].referenceId, i - 1)
       /\ \A e \in ChunkDoneEvents :
             \A j \in 1 .. Len(chunks[log[e].n]) :
                SettledBy(chunks[log[e].n][j].referenceId, e - 1)
       /\ \A b \in ChunkBeginEvents :
             log[b].n > 1 => \E e \in ChunkDoneEvents : e < b /\ log[e].n = log[b].n - 1
       /\ \A b1, b2 \in ChunkBeginEvents : log[b1].n = log[b2].n => b1 = b2

C20_Witness ==
    /\ upc = "returned"
    /\ Len(documents) = 3
    /\ ChunkSizeOf(ucfg) = 2
    /\ Cardinality(CallsFor(2)) = 2
    /\ FailedCallsFor(2) = CallsFor(2)
    /\ CallsFor(3) # {}
    /\ \A i \in CallsFor(3) : \A j \in CallsFor(2) : j < i

----------------------------------------------------------------------------
(* withRetry: logging *)
IsWarning(ev) == ev.e \in {"warn", "finalwarn"}
WarnEvents == { i \in 1 .. Len(log) : log[i].e = "warn" }
FinalWarnEvents == { i \in 1 .. Len(log) : log[i].e = "finalwarn" }
FailEvents == { i \in 1 .. Len(log) : log[i].e = "fail" }

\* C26: every failed attempt of withRetry is followed, before anything else
\* happens (so before the sleep and the next attempt), by exactly one
\* console.warn line that carries the context of the call; that line is the
\* final-failure line exactly when the failed attempt was attempt number
\* maxRetries, it is then the last thing logged before withRetry throws, and
\* it is logged once; no line is logged without a failed attempt, so a run
\* whose first attempt succeeds logs nothing.
C26_LoggingFollowsAttempts ==
    /\ \A i \in FailEvents :
          /\ i < Len(log)
          /\ IsWarning(log[i + 1])
          /\ log[i + 1].d = log[i].d
          /\ log[i + 1].e = "finalwarn" <=> log[i].m = MaxRetriesOf(rcfg)
          /\ log[i + 1].e = "warn" => log[i + 1].n = log[i].m
          /\ log[i + 1].e = "finalwarn" => log[i + 1].n = MaxRetriesOf(rcfg)
    /\ \A i \in 1 .. Len(log) : IsWarning(log[i]) => (i > 1 /\ log[i - 1].e = "fail")
    /\ Cardinality(WarnEvents) + Cardinality(FinalWarnEvents) = NumFails
    /\ Cardinality(FinalWarnEvents) <= 1
    /\ FinalWarnEvents # {} <=> (NumFails = MaxRetriesOf(rcfg) /\ MaxRetriesOf(rcfg) >= 1)
    /\ (rpc = "threw" /\ MaxRetriesOf(rcfg) >= 1) => log[Len(log)].e = "finalwarn"
    /\ FinalWarnEvents # {} => (rpc = "threw" \/ ~RetryLoopCond(attempt, MaxRetriesOf(rcfg)))
    /\ (rpc = "returned" /\ NumCalls = 1) => WarnEvents \cup FinalWarnEvents = {}

C26_Witness ==
    /\ rpc = "threw"
    /\ MaxRetriesOf(rcfg) = 3
    /\ Len(log) = 8
    /\ log[2].e = "warn"
    /\ log[5].e = "warn"
    /\ log[8].e = "finalwarn"

C26_WitnessQuiet ==
    /\ rpc = "returned"
    /\ NumCalls = 1
    /\ Len(log) = 1

----------------------------------------------------------------------------
(* syncAll: workspace filter *)
WorkspaceOfId(id) == (CHOOSE r \in {srcRecords[i] : i \in 1 .. Len(srcRecords)} : r.id = id).ws
ListedWorkspaces == {srcWorkspaces[i] : i \in 1 .. Len(srcWorkspaces)}
FetchedIds == {fetched[i].id : i \in 1 .. Len(fetched)}

\* C30: when the SyncConfig names workspaceIds, every fetched record and every
\* record carried by a create call belongs to a named workspace; when it
\* names none, once syncAll is past its fetch steps it has fetched the
\* records of every listed workspace.
C30_WorkspaceFilter ==
    /\ "workspaceIds" \in DOMAIN scfg
         => /\ \A i \in 1 .. Len(fetched) : fetched[i].ws \in scfg["workspaceIds"]
            /\ \A i \in CreateCalls :
                  WorkspaceOfId(log[i].d.referenceId) \in scfg["workspaceIds"]
    /\ ("workspaceIds" \notin DOMAIN scfg /\ spc \in {"upload", "returned"})
         => {srcRecords[i].id : i \in {j \in 1 .. Len(srcRecords) :
                                         srcRecords[j].ws \in ListedWorkspaces}}
               \subseteq FetchedIds

----------------------------------------------------------------------------
(* syncAll: order of the steps *)
EventsOf(kinds) == { i \in 1 .. Len(log) : log[i].e \in kinds }
RequestEvents == EventsOf({"getpage", "getoffset", "get", "getfail"})
FoundWsEvents == EventsOf({"foundWs"})
FetchingRecsEvents == EventsOf({"fetchingRecs"})
TransformEventsAt == EventsOf({"transform"})
UploadEvents == EventsOf({"upload"})
Before(A, B) == A = {} \/ B = {} \/ \A i \in A : \A j \in B : i < j

\* requests of the workspace listing / of the record listing: those issued
\* before the first, resp. after the first, "fetching records" line
WorkspaceRequests == { i \in RequestEvents : \A j \in FetchingRecsEvents : i < j }
RecordListingRequests == RequestEvents \ WorkspaceRequests

\* the source records the run has to list: all of them (article connector) or
\* those of the workspaces it visits (document connector)
InScopeIds == { srcRecords[i].id : i \in { j \in 1 .. Len(srcRecords) :
                   variant = "article" \/ srcRecords[j].ws \in TargetSet } }

\* C23: in every run of syncAll
\*  - the workspace listing is complete (every workspace of the source was
\*    returned) before the first record-listing request is issued;
\*  - no request is issued once a record is transformed, and by then the
\*    record listing is complete (every record in scope was fetched);
\*  - every record syncAll keeps is transformed before upload is invoked and
\*    before the first create-document call, which follows the invocation;
\*  - upload is invoked at most once, and exactly once in a run that returns
\*    after having fetched a record with content.
C23_StepsInOrder ==
    LET requests == RequestEvents
        foundWs == FoundWsEvents
        fetchingRecs == FetchingRecsEvents
        wsRequests == { i \in requests : \A j \in fetchingRecs : i < j }
        recRequests == requests \ wsRequests
        transforms == TransformEventsAt
        uploads == UploadEvents
        creates == CreateCalls
    IN
    /\ log # << >> => log[1].e = "fetchingWs"
    /\ Cardinality(EventsOf({"fetchingWs"})) <= 1
    /\ Cardinality(foundWs) <= 1
    /\ Before(wsRequests, foundWs)
    /\ Before(foundWs, fetchingRecs)
    /\ Before(foundWs, recRequests)
    /\ recRequests # {}
         => /\ foundWs # {}
            /\ \A i \in foundWs : log[i].n = Len(srcWorkspaces)
            /\ sresult.workspaces = Len(srcWorkspaces)
    /\ Before(requests, transforms)
    /\ transforms # {}
         => /\ FetchedIds = InScopeIds
            /\ Len(fetched) = Cardinality(InScopeIds)
            /\ fpc = "idle"
    /\ Before(transforms, uploads)
    /\ Before(uploads, creates)
    /\ (uploads # {} \/ creates # {})
         => /\ TransformedIds = KeptIds
            /\ Cardinality(transforms) = Len(Kept)
            /\ uploads # {}
    /\ Cardinality(uploads) <= 1
    /\ (spc = "returned" /\ FetchedWithContentIds # {}) => Cardinality(uploads) = 1

C23_Witness ==
    /\ spc = "returned"
    /\ variant = "article"
    /\ Len(srcWorkspaces) = 2
    /\ Cardinality(WorkspaceRequests) >= 2
    /\ Cardinality(RecordListingRequests) >= 2
    /\ Cardinality(TransformEventsAt) = 2
    /\ Cardinality(UploadEvents) = 1
    /\ Cardinality(CreateCalls) >= 2

----------------------------------------------------------------------------
(* DocsieClient: the rate limiter *)
RequestsSent == SelectSeq(log, LAMBDA ev : ev.e = "request")

\* C21: every request of a DocsieClient is launched by its limiter (none is
\* sent by get itself), and at every moment the number of its requests in
\* flight is at most the configured maxConcurrent, 5 when none is configured,
\* however many callers call get concurrently and however often.
C21_ConcurrencyCap ==
    /\ Cardinality(InFlight) <= Opt(ccfg, "maxConcurrent", DEFAULT_MAX_CONCURRENT)
    /\ \A i \in 1 .. Len(RequestsSent) : RequestsSent[i].k = 1
    /\ \A c \in InFlight :
          \E i \in 1 .. Len(RequestsSent) :
             RequestsSent[i].n = c /\ RequestsSent[i].m >= jobs[c].asked

C21_Witness ==
    /\ "maxConcurrent" \in DOMAIN ccfg
    /\ ccfg["maxConcurrent"] = 2
    /\ Cardinality(InFlight) = 2
    /\ queue # << >>
    /\ now >= nextSlot
    /\ Len(RequestsSent) = 2

\* C22: two consecutive requests of one DocsieClient are launched at least
\* minTime apart (200 ms when none is configured), whichever callers they come
\* from; so three get calls made at the same time are launched at times
\* t1 <= t2 <= t3 with t2 - t1 >= minTime and t3 - t2 >= minTime.
C22_Spacing ==
    \A i \in 2 .. Len(RequestsSent) :
       /\ RequestsSent[i - 1].m <= RequestsSent[i].m
       /\ RequestsSent[i].m - RequestsSent[i - 1].m >= Opt(ccfg, "minTime", DEFAULT_MIN_TIME)

C22_Witness ==
    /\ "minTime" \notin DOMAIN ccfg
    /\ \A c \in Callers : jobs[c].asked = 0 /\ jobs[c].pc = "running"
    /\ Len(RequestsSent) = 3
    /\ {RequestsSent[i].n : i \in 1 .. 3} = Callers
    /\ RequestsSent[1].m = 0
    /\ RequestsSent[2].m = DEFAULT_MIN_TIME
    /\ RequestsSent[3].m = 2 * DEFAULT_MIN_TIME

----------------------------------------------------------------------------
(* DocsieClient: errors *)
\* C24 as stated: a get whose response is not 2xx fails with an Error that
\* carries the response's status, its status text and the endpoint of the
\* request; a get whose fetch is rejected fails with the very error fetch
\* was rejected with; in both cases the call does not return a value.
C24_ErrorOutcomes ==
    \A c \in DOMAIN jobs :
       LET j == jobs[c] IN
       /\ (j.resp.kind = "http" /\ j.resp.status \notin 200 .. 299)
             => /\ j.pc = "threw"
                /\ j.out.kind = "Error"
                /\ "status" \in DOMAIN j.out
                /\ j.out.status = j.resp.status
                /\ j.out.statusText = j.resp.statusText
                /\ "endpoint" \in DOMAIN j.out
                /\ j.out.endpoint = j.endpoint
       /\ j.resp.kind = "net"
             => /\ j.pc = "threw"
                /\ j.out = j.resp.error

\* C25: a DocsieClient constructed without an API key, or with the empty
\* string as key, throws "Docsie API key is required": the client is never
\* usable, no get is accepted and no request is sent, before or after; with a
\* non-empty key the constructor succeeds, and no request is sent before the
\* first get.
C25_ConstructorNeedsKey ==
    /\ cpc = "threw"
         <=> (cpc \notin {"idle", "new"} /\ ("apiKey" \notin DOMAIN ccfg \/ ccfg["apiKey"] = 0))
    /\ cpc = "threw" => cout = ConfigError
    /\ cpc = "ready"
         => /\ "apiKey" \in DOMAIN ccfg
            /\ ccfg["apiKey"] > 0
            /\ cout = Undefined
    /\ cpc \in {"new", "threw"}
         => /\ log = << >>
            /\ queue = << >>
            /\ \A c \in DOMAIN jobs : jobs[c] = IdleJob
    /\ (\A c \in DOMAIN jobs : jobs[c].endpoint = "") => log = << >>

C25_Witness ==
    /\ cpc = "threw"
    /\ "apiKey" \in DOMAIN ccfg
    /\ ccfg["apiKey"] = 0
    /\ cout = ConfigError

C25_WitnessReady ==
    /\ cpc = "ready"
    /\ Len(RequestsSent) >= 1

----------------------------------------------------------------------------
(* docToMarkdown: claims *)
IsOrdered(b) == b.type = "ordered-list-item"
KnownTypes == {"unstyled", "ordered-list-item", "figure", "chart"}

\* 1-based position of block i inside its maximal run of ordered-list-item blocks
RunPos(bs, i) ==
    LET others == { j \in 1 .. (i - 1) : ~IsOrdered(bs[j]) }
    IN  i - (IF others = {} THEN 0 ELSE CHOOSE j \in others : \A k \in others : k <= j)

\* the block list without its i-th block
Remove(bs, i) == SubSeq(bs, 1, i - 1) \o SubSeq(bs, i + 1, Len(bs))

OrderedLines(ls) == SelectSeq(ls, LAMBDA l : l.kind = "ordered")

\* C27: every ordered-list-item block is rendered with the number equal to
\* its 1-based position inside its maximal contiguous run of
\* ordered-list-item blocks (any other block in between, also a chart that
\* renders nothing, starts the count again), and these numbered lines are the
\* numbered lines of the result, in order.
C27_OrderedNumbering ==
    /\ \A i \in 1 .. Len(md.st.rendered) :
          IsOrdered(blocks[i])
             => md.st.rendered[i] = Line("ordered", RunPos(blocks, i), blocks[i].text)
    /\ md.pc = "done" => OrderedLines(md.out) = OrderedLines(md.st.rendered)

C27_Witness ==
    /\ md.pc = "done"
    /\ Len(blocks) = 4
    /\ IsOrdered(blocks[1])
    /\ IsOrdered(blocks[2])
    /\ blocks[3] = MkBlock("unstyled", "a", "")
    /\ IsOrdered(blocks[4])
    /\ md.out = << Line("ordered", 1, "b"), Line("ordered", 2, "b"),
                   Line("plain", 0, "a"), Line("ordered", 1, "b") >>

C27_WitnessChart ==
    /\ md.pc = "done"
    /\ Len(blocks) = 3
    /\ IsOrdered(blocks[1])
    /\ blocks[2].type = "chart"
    /\ IsOrdered(blocks[3])
    /\ md.out = << Line("ordered", 1, "b"), Line("ordered", 1, "b") >>

\* blocks that contribute nothing: a chart, a block of unknown type without text
ContributesNothing(b) == b.type = "chart" \/ (b.type \notin KnownTypes /\ b.text = "")
BetweenOrdered(bs, i) == i > 1 /\ i < Len(bs) /\ IsOrdered(bs[i - 1]) /\ IsOrdered(bs[i + 1])

UnknownBlocksRendered ==
    /\ md.pc \in {"enter", "loop", "done"}
    /\ md.pc = "done" => md.out = DocToMarkdown(blocks)
    /\ \A i \in 1 .. Len(md.st.rendered) :
          /\ blocks[i].type \notin KnownTypes
                => md.st.rendered[i] = IF blocks[i].text # ""
                                       THEN Line("plain", 0, blocks[i].text) ELSE Null
          /\ blocks[i].type = "chart" => md.st.rendered[i] = Null
    /\ md.pc = "done"
         => LET shown == SelectSeq(md.st.rendered, LAMBDA l : l # Null)
            IN  md.out = JoinTrim(shown)

\* C28 as stated: docToMarkdown returns a string for every block list; a
\* block of unknown type is rendered as its text when that is non-empty and
\* as nothing otherwise, a chart block as nothing; and the result is the
\* same as for the block list without such a block that renders nothing.
C28_UnknownBlocksAreRemovable ==
    /\ UnknownBlocksRendered
    /\ md.pc = "done"
         => \A i \in 1 .. Len(blocks) :
               ContributesNothing(blocks[i]) => DocToMarkdown(Remove(blocks, i)) = md.out

\* C28 amended: as above, but the result is the same as for the block list
\* without a block that renders nothing exactly when that block does not stand
\* directly between two ordered-list-item blocks (taking it away there joins
\* the two runs and the numbers of the second run change).
C28_UnknownBlocksContributeNothing ==
    /\ UnknownBlocksRendered
    /\ md.pc = "done"
         => \A i \in 1 .. Len(blocks) :
               ContributesNothing(blocks[i])
                  => (DocToMarkdown(Remove(blocks, i)) = md.out
                        <=> ~BetweenOrdered(blocks, i))

C28_Witness ==
    /\ md.pc = "done"
    /\ blocks = << MkBlock("unstyled", "a", ""), MkBlock("chart", "c", ""),
                   MkBlock("mystery", "", ""), MkBlock("mystery", "d", "") >>
    /\ md.out = << Line("plain", 0, "a"), Line("plain", 0, "d") >>

\* blocks that are rendered as the empty string
NoSource(b) == b.type = "figure" /\ b.src = ""
EmptyText(b) == b.type = "unstyled" /\ b.text = ""

\* C29 as stated: a figure without source URL is dropped from the result:
\* the result is the same as for the block list without it, and (no other
\* block of the list being rendered as the empty string) the result has no
\* empty line in it, that is nowhere two blank lines in a row.
C29_NoStrayDoubleBlank ==
    (md.pc = "done" /\ \A i \in 1 .. Len(blocks) : ~EmptyText(blocks[i]))
       => /\ \A i \in 1 .. Len(md.out) : md.out[i] # EmptyLine
          /\ \A i \in 1 .. Len(blocks) :
                NoSource(blocks[i]) => DocToMarkdown(Remove(blocks, i)) = md.out


----------------------------------------------------------------------------
(* The CLI runner: exit codes *)
CheckEvents(which) == { i \in 1 .. Len(log) : log[i].e = "check" /\ log[i].n = which }

C31_WitnessReady == val.mode = "validate" /\ run.done /\ run.exitCode = 0

\* runValidate has returned 1 because runValidation threw
C31_WitnessThrew == val.mode = "validate" /\ run.done /\ val.pc = "threw" /\ cpc = "ready"

\* runSync has returned 0 after a run with failed uploads
C31_WitnessSyncFailures ==
    val.mode = "sync" /\ run.done /\ run.exitCode = 0 /\ sresult.failed > 0

\* runSync has returned 1 because syncAll threw; because the constructor threw
C31_WitnessSyncThrew == val.mode = "sync" /\ run.done /\ spc = "threw"
C31_WitnessSyncNoKey == val.mode = "sync" /\ run.done /\ cpc = "threw" /\ spc = "start"


----------------------------------------------------------------------------
C32_WitnessFailures ==
    val.mode = "sync" /\ run.done /\ sresult.failed > 0 /\ srcRecords # << >>

\* a validation that read a source holding records
C32_WitnessValidation ==
    val.mode = "validate" /\ run.done /\ val.docsie.success /\ srcRecords # << >>


----------------------------------------------------------------------------
(* withRetry: at least one attempt *)
\* C38: whenever withRetry has settled, operation was called at least once,
\* and when it failed, the value it threw is the error of a failed call of
\* operation (never undefined), for every maxRetries including 0 and below.
C38_AtLeastOneAttempt ==
    (upc = "idle" /\ RetryDone) =>
        /\ NumCalls >= 1
        /\ rpc = "threw" =>
              /\ rout # Undefined
              /\ \E i \in FailEvents : rout = ToError(ThrownById(log[i].n))


----------------------------------------------------------------------------
(* upload: the error list *)
HasOkCall(r) == \E i \in CallsFor(r) : log[i].e = "ok"
FailedDocuments == SelectSeq(documents, LAMBDA d : ~HasOkCall(d.referenceId))
LastCallFor(r) == CHOOSE i \in CallsFor(r) : \A j \in CallsFor(r) : j <= i

\* C33: the error list upload returns holds one entry per document that has
\* no successful create call and none for any other document, in the input
\* order of the documents; each entry carries the document's referenceId and
\* the message of the error its last create call raised; syncAll hands the
\* list on as it is.
C33_ErrorList ==
    /\ upc = "returned" =>
          /\ Len(uout.errors) = Len(FailedDocuments)
          /\ \A k \in 1 .. Len(uout.errors) :
                LET r == FailedDocuments[k].referenceId IN
                /\ uout.errors[k].docId = r
                /\ CallsFor(r) # {}
                /\ uout.errors[k].error = MessageOf(ThrownById(log[LastCallFor(r)].n))
    /\ spc = "returned" => sresult.errors = uout.errors

\* the same statement for an uploader whose maxRetries is at least 1
C33_ErrorListWhenAttempted ==
    UploadRetryConfig(uretry)["maxRetries"] >= 1 => C33_ErrorList


----------------------------------------------------------------------------
(* upload: create calls per document *)
MaxAttemptsOfUpload == UploadRetryConfig(uretry)["maxRetries"]
OkCallsFor(r) == {i \in CallsFor(r) : log[i].e = "ok"}
SettledFailed(r) == \E i \in 1 .. Len(log) : log[i].e = "error" /\ log[i].d.referenceId = r
\* the create calls a settled document must have received
CallsDue(r) == IF HasOkCall(r) THEN log[CHOOSE i \in OkCallsFor(r) : TRUE].m
               ELSE MaxAttemptsOfUpload
RECURSIVE SumCallsDue(_)
SumCallsDue(docs) == IF docs = << >> THEN 0
                     ELSE CallsDue(Head(docs).referenceId) + SumCallsDue(Tail(docs))

\* C34: in one upload run a document whose create call first succeeds on its
\* k-th attempt has received exactly k create calls, k <= maxAttempts, the
\* successful one last; a document that failed permanently has received
\* exactly maxAttempts create calls; the calls of one document are never
\* interleaved with those of another; so when upload returns the number of
\* create calls is the sum of these per-document counts.
C34_CallsPerDocument ==
    /\ \A r \in DocIds :
          /\ HasOkCall(r) =>
                /\ Cardinality(OkCallsFor(r)) = 1
                /\ \A i \in OkCallsFor(r) :
                      /\ log[i].m = Cardinality(CallsFor(r))
                      /\ log[i].m <= MaxAttemptsOfUpload
                      /\ \A j \in CallsFor(r) : j <= i
          /\ SettledFailed(r) =>
                /\ ~HasOkCall(r)
                /\ Cardinality(CallsFor(r)) = MaxAttemptsOfUpload
    /\ \A i, j, k \in CreateCalls :
          (i < j /\ j < k /\ log[i].d.referenceId = log[k].d.referenceId)
             => log[j].d.referenceId = log[i].d.referenceId
    /\ upc = "returned" => NumCalls = SumCallsDue(documents)

\* three documents with maxAttempts 3, the first failed permanently, the other
\* two succeeded on their first call: 3 + 1 + 1 = 5 create calls
C34_Witness ==
    /\ upc = "returned"
    /\ Len(documents) = 3
    /\ MaxAttemptsOfUpload = 3
    /\ SettledFailed(documents[1].referenceId)
    /\ HasOkCall(documents[2].referenceId)
    /\ HasOkCall(documents[3].referenceId)
    /\ NumCalls = 5

\* a document that succeeded on its second attempt
C34_WitnessSecondAttempt ==
    \E r \in DocIds : \E i \in OkCallsFor(r) : log[i].m = 2 /\ Cardinality(CallsFor(r)) = 2


----------------------------------------------------------------------------
(* syncAll: the counters of the SyncResult *)
ErrorIdsOf(errs) == {errs[i].docId : i \in 1 .. Len(errs)}
UploadedIds == {r \in KeptIds : HasOkCall(r)}

\* C35: whenever syncAll has returned, articles + skipped is the number of
\* records fetched and uploaded + failed is articles: every record kept for
\* the upload is either uploaded (it has a successful create call) or failed
\* (it has an entry in errors), never both and never neither, and errors holds
\* one entry per failed record.
C35_SyncResultCounts ==
    spc = "returned" =>
        /\ sresult.articles + sresult.skipped = Len(fetched)
        /\ sresult.uploaded + sresult.failed = sresult.articles
        /\ sresult.articles = Len(Kept)
        /\ Len(sresult.errors) = sresult.failed
        /\ Cardinality(ErrorIdsOf(sresult.errors)) = sresult.failed
        /\ Cardinality(UploadedIds) = sresult.uploaded
        /\ UploadedIds \cup ErrorIdsOf(sresult.errors) = KeptIds
        /\ UploadedIds \cap ErrorIdsOf(sresult.errors) = {}

\* syncAll has returned after a run that uploaded one record and failed on
\* another
C35_Witness ==
    /\ spc = "returned"
    /\ sresult.articles = 2
    /\ sresult.uploaded = 1
    /\ sresult.failed = 1
    /\ Len(sresult.errors) = 1

\* syncAll has returned after a run that skipped one record and failed on the
\* other
C35_WitnessSkipped ==
    /\ spc = "returned"
    /\ variant = "article"
    /\ Len(fetched) = 2
    /\ sresult.skipped = 1
    /\ sresult.failed = 1


----------------------------------------------------------------------------
(* fetchAllWithPagination against a server with its own page size *)
\* C36: page-number idiom, P >= 1, any server that serves the collection as
\* consecutive pages, also one that returns at most C < P items per page:
\* fetchAllWithPagination returns every item of the collection, in order.
C36_NoItemMissed ==
    (fkind = "page" /\ fpc = "done" /\ flimit >= 1) => allItems = served

\* the same statement for a server that serves pages of the size asked for
C36_NoItemMissedUncapped ==
    (fkind = "page" /\ fpc = "done" /\ flimit >= 1 /\ Uncapped) => allItems = served


----------------------------------------------------------------------------
(* Termination *)
\* upload() and the paginated fetches, with every step that can be taken
\* eventually taken: each create call and each request returns or fails
SpecUploadLive == SpecUpload /\ WF_vars(NextUpload)
SpecPagingLive == SpecPaging /\ WF_vars(NextPaging)

\* C37: upload terminates for every document list and every chunk size the
\* constructor accepts, 0 and negative sizes included: it returns its result
\* (or raises).
C37_UploadTerminates == <>(upc \in {"returned", "raised"})

\* the same statement for the chunk sizes of at least 1
C37_UploadTerminatesPositive ==
    ChunkSizeOf(ucfg) >= 1 => <>(upc \in {"returned", "raised"})

\* the paginated fetches terminate for every page size, 0 included
C37_FetchTerminates == <>(fpc \in {"done", "threw"})
C37_FetchTerminatesPositive == flimit >= 1 => <>(fpc \in {"done", "threw"})


----------------------------------------------------------------------------
(* upload: the retry overrides of the uploader *)
RetryKeys == {"maxRetries", "initialDelayMs", "backoffMultiplier", "maxDelayMs"}
\* the value withRetry works with for key k under the configuration cfg
RetryValueOf(cfg, k) ==
    CASE k = "maxRetries" -> MaxRetriesOf(cfg)
      [] k = "initialDelayMs" -> InitialDelayOf(cfg)
      [] k = "backoffMultiplier" -> MultiplierOf(cfg)
      [] k = "maxDelayMs" -> MaxDelayOf(cfg)
UploadSleeps == {i \in 1 .. Len(log) : log[i].e = "sleep"}

\* C39: every retry of a document works with exactly the values the uploader
\* was configured with, for each of maxRetries, initialDelayMs,
\* backoffMultiplier and maxDelayMs; so no document receives more than the
\* configured maxRetries create calls and no wait between two attempts is
\* longer than the configured maxDelayMs.
C39_RetryOverridesHonoured ==
    /\ upc = "inRetry" =>
          \A k \in RetryKeys \cap DOMAIN uretry : RetryValueOf(rcfg, k) = uretry[k]
    /\ "maxRetries" \in DOMAIN uretry =>
          \A r \in DocIds : Cardinality(CallsFor(r)) <= Max(uretry["maxRetries"], 0)
    /\ "maxDelayMs" \in DOMAIN uretry =>
          \A i \in UploadSleeps : log[i].n <= uretry["maxDelayMs"]

\* the same statement without maxDelayMs
C39_OtherOverridesHonoured ==
    /\ upc = "inRetry" =>
          \A k \in (RetryKeys \ {"maxDelayMs"}) \cap DOMAIN uretry :
              RetryValueOf(rcfg, k) = uretry[k]
    /\ "maxRetries" \in DOMAIN uretry =>
          \A r \in DocIds : Cardinality(CallsFor(r)) <= Max(uretry["maxRetries"], 0)

\* the waits alone, for an uploader whose initialDelayMs is within its maxDelayMs
C39_WaitsWithinConfiguredCap ==
    ({"maxDelayMs", "initialDelayMs"} \subseteq DOMAIN uretry
        /\ uretry["initialDelayMs"] <= uretry["maxDelayMs"])
    => \A i \in UploadSleeps : log[i].n <= uretry["maxDelayMs"]
====
